---- MODULE Spec2Model ----
(***************************************************************************)
(* RKNS container (rekonas-com/rkns-python): the store hierarchy, the      *)
(* format-adapter pipeline EMPTY -> RAW_POPULATED -> NORMALIZED, the       *)
(* frequency-group extractor and the lazy affine signal view.              *)
(*                                                                         *)
(* Three specifications share the module:                                  *)
(*   Spec         the container life cycle (rkns.py, adapters/, _zarr/)    *)
(*   SpecExtract  the frequency-group extractor as a function of its input *)
(*   SpecLazy     LazySignal.from_minmaxs and the value transform          *)
(*                                                                         *)
(* Numbers.  Sampling rates are integers in hundredths of a hertz (104 is  *)
(* 1.04 Hz).  Floating-point values are exact rationals with the IEEE      *)
(* special values inf and nan, which is what a division by zero produces   *)
(* in numpy.  Digital codes are integers; a cast to int16 wraps modulo     *)
(* 2^16.                                                                   *)
(***************************************************************************)
EXTENDS Integers, Sequences, FiniteSets, TLC

VARIABLES
    stores,      \* store -> content of the zarr store (path -> node)
    rkns,        \* the RKNS object the caller holds, or NoObj
    last,        \* the last call: operation, arguments, outcome, pre-state
    ex,          \* SpecExtract: the input and the result of extract_data
    lz           \* SpecLazy: the channel calibration and the view built on it

vars == <<stores, rkns, last, ex, lz>>

(***************************************************************************)
(* Node names (util/rkns_util.py, RKNSNodeNames) and format tags           *)
(* (file_formats.py, FileFormat).                                          *)
(***************************************************************************)
raw_root == "_raw"
rkns_root == "rkns"
rkns_signals_group == "signals"
rkns_annotations_group == "annotations"
history == "history"
popis == "popis"
raw_signal == "signal"
rkns_signal == "signal"
rkns_signal_minmaxs == "signal_minmaxs"

FileFormat_RKNS == 0
FileFormat_EDF == 1
FileFormat_EDF_PLUS == 2
FileFormat_UNKNOWN == -1

minmax_array_columnorder ==
    <<"physical_min", "physical_max", "digital_min", "digital_max">>

(***************************************************************************)
(* Floating point: exact rationals plus inf and nan.                       *)
(***************************************************************************)
RECURSIVE GCD(_, _)
GCD(a, b) == IF b = 0 THEN a ELSE GCD(b, a % b)

Abs(x) == IF x < 0 THEN -x ELSE x

Sign(x) == IF x < 0 THEN -1 ELSE IF x > 0 THEN 1 ELSE 0

NaN == [k |-> "nan", n |-> 0, d |-> 0]

Inf(s) == [k |-> "inf", n |-> s, d |-> 0]

Fin(n, d) ==
    LET g == GCD(Abs(n), Abs(d))
        s == IF d < 0 THEN -1 ELSE 1
    IN [k |-> "fin", n |-> (s * n) \div g, d |-> (s * d) \div g]

FInt(i) == Fin(i, 1)

FNeg(a) == IF a.k = "nan" THEN NaN
           ELSE IF a.k = "inf" THEN Inf(-a.n)
           ELSE Fin(-a.n, a.d)

FAdd(a, b) ==
    IF a.k = "nan" \/ b.k = "nan" THEN NaN
    ELSE IF a.k = "inf" /\ b.k = "inf"
         THEN (IF a.n = b.n THEN a ELSE NaN)
    ELSE IF a.k = "inf" THEN a
    ELSE IF b.k = "inf" THEN b
    ELSE Fin(a.n * b.d + b.n * a.d, a.d * b.d)

FSub(a, b) == FAdd(a, FNeg(b))

FMul(a, b) ==
    IF a.k = "nan" \/ b.k = "nan" THEN NaN
    ELSE IF a.k = "inf" \/ b.k = "inf"
         THEN (IF Sign(a.n) * Sign(b.n) = 0 THEN NaN
               ELSE Inf(Sign(a.n) * Sign(b.n)))
    ELSE Fin(a.n * b.n, a.d * b.d)

\* numpy float division: x/0 is +-inf, 0/0 is nan (a warning, not an error)
FDiv(a, b) ==
    IF a.k = "nan" \/ b.k = "nan" THEN NaN
    ELSE IF a.k = "inf" /\ b.k = "inf" THEN NaN
    ELSE IF a.k = "inf" THEN Inf(a.n * (IF b.n < 0 THEN -1 ELSE 1))
    ELSE IF b.k = "inf" THEN Fin(0, 1)
    ELSE IF b.n = 0 THEN (IF a.n = 0 THEN NaN ELSE Inf(Sign(a.n)))
    ELSE Fin(a.n * b.d, a.d * b.n)

\* cast of an integer to int16: wraps modulo 2^16
Int16(x) == ((x + 32768) % 65536) - 32768

\* cast of a finite float to int16: truncation toward zero, then the wrap
TruncInt16(a) ==
    LET q == Abs(a.n) \div a.d
    IN Int16(Sign(a.n) * q)

(***************************************************************************)
(* The zarr store: a hierarchy of group and array nodes, each with         *)
(* attributes.  A store is a function from the paths that exist (a path is *)
(* the sequence of node names below the root, <<>> being the root) to      *)
(* nodes.  A store without a root node is the empty function.              *)
(***************************************************************************)
NoAttrs == [a \in {} |-> 0]

EmptyStore == [p \in {} |-> 0]

GroupNode(attrs) ==
    [kind |-> "group", attrs |-> attrs, shape |-> <<>>, data |-> <<>>]

ArrayNode(shape, data, attrs) ==
    [kind |-> "array", attrs |-> attrs, shape |-> shape, data |-> data]

IsPrefix(p, q) == Len(p) <= Len(q) /\ SubSeq(q, 1, Len(p)) = p

Prefixes(p) == {SubSeq(p, 1, i) : i \in 0..Len(p)}

Restrict(st, keep) == [p \in keep |-> st[p]]

\* attrs.update(d) / update_attributes(d): keys of d win
update_attrs(st, p, d) ==
    [st EXCEPT ![p].attrs = d @@ st[p].attrs]

\* Store.delete_dir(prefix): every key below prefix goes
delete_dir(st, prefix) ==
    Restrict(st, {p \in DOMAIN st : ~IsPrefix(prefix, p)})

\* the explicit nodes collide with what is in the store
hierarchy_collides(st, nodes) == \E p \in nodes : p \in DOMAIN st

\* Group.create_hierarchy(nodes), overwrite=False, no collision: the nodes
\* and the parents they imply that do not exist yet become empty groups
create_hierarchy(st, nodes) ==
    LET want == UNION {Prefixes(p) : p \in nodes}
        new  == want \ DOMAIN st
    IN [p \in DOMAIN st \cup new |->
            IF p \in DOMAIN st THEN st[p] ELSE GroupNode(NoAttrs)]

\* Group.create_group(name), overwrite=False
create_group(st, p) == (p :> GroupNode(NoAttrs)) @@ st

\* add_child_array(parent_node, data, name, attributes)
add_child_array(st, parent, name, shape, data, attributes) ==
    (Append(parent, name) :> ArrayNode(shape, data, attributes)) @@ st

(***************************************************************************)
(* Frequency groups.  np.round(x, 1) rounds the scaled value half to even; *)
(* the group name is the text "fg_" followed by the rounded rate.          *)
(***************************************************************************)
\* hundredths of a hertz -> tenths of a hertz
Round1(h) ==
    LET q == h \div 10
        r == h % 10
    IN IF r < 5 THEN q
       ELSE IF r > 5 THEN q + 1
       ELSE IF q % 2 = 0 THEN q ELSE q + 1

\* f"fg_{rounded}" for the rates of the model
FgName(tenths) ==
    CASE tenths = 10 -> "fg_1.0"
      [] tenths = 11 -> "fg_1.1"
      [] tenths = 20 -> "fg_2.0"
      [] tenths = 40 -> "fg_4.0"

get_freq_group(freq_in_Hz) == FgName(Round1(freq_in_Hz))

add_frequency_groups_to_headers(signal_headers) ==
    [i \in DOMAIN signal_headers |->
        signal_headers[i] @@
        ("frequency_group" :> FgName(Round1(signal_headers[i].sample_frequency)))]

RECURSIVE SortedSeq(_)
SortedSeq(S) ==
    IF S = {} THEN <<>>
    ELSE LET m == CHOOSE x \in S : \A y \in S : x <= y
         IN <<m>> \o SortedSeq(S \ {m})

\* np.isclose(a, b), rtol = 1e-05, atol = 1e-08: |a - b| <= atol + rtol * |b|
IsClose(a, b) ==
    Abs(a.n * b.d - b.n * a.d)
        <= (a.d * b.d + 1000 * Abs(b.n) * a.d) \div 100000000

\* datetime.isoformat()
isoformat(dt) == dt.iso

(***************************************************************************)
(* RKNSEdfAdapter.extract_data and validate_consistent_duration.           *)
(* signal_headers already carry frequency_group.  The result is the three  *)
(* dictionaries, the order in which the groups were first met (the         *)
(* iteration order of fg_arrays) and the file header as the call leaves    *)
(* it, or the error raised.                                                *)
(***************************************************************************)
Duration(channel_data, signal_headers, i) ==
    FDiv(FInt(100 * Len(channel_data[i])),
         FInt(signal_headers[i].sample_frequency))

validate_consistent_duration_unchecked(channel_data, signal_headers) == TRUE

\* validate_consistent_duration: TRUE when it returns, FALSE when it raises
validate_consistent_duration(channel_data, signal_headers) ==
    \A i \in DOMAIN signal_headers :
        IsClose(Duration(channel_data, signal_headers, 1),
                Duration(channel_data, signal_headers, i))

\* the channels of group fg, in source order
FgMembers(signal_headers, fg) ==
    SortedSeq({i \in DOMAIN signal_headers : signal_headers[i].frequency_group = fg})

\* the group names in the order of their first channel
FgOrder(signal_headers) ==
    LET first == {i \in DOMAIN signal_headers :
                    \A j \in 1..(i - 1) :
                        signal_headers[j].frequency_group
                            # signal_headers[i].frequency_group}
        idx == SortedSeq(first)
    IN [c \in DOMAIN idx |-> signal_headers[idx[c]].frequency_group]

\* np.array(p_minmax_d_minmax, dtype=np.int16)
MinmaxColumn(s_header) ==
    <<TruncInt16(s_header.physical_min), TruncInt16(s_header.physical_max),
      Int16(s_header.digital_min), Int16(s_header.digital_max)>>

\* a variant that stacks along axis 0: shape (k, n)
Stack1_axis0(list) ==
    LET k == Len(list)
        n == Len(list[1])
    IN [shape |-> <<k, n>>,
        data  |-> [c \in 1..k |-> [r \in 1..n |-> Int16(list[c][r])]]]

\* np.stack(list, 1, dtype=np.int16) of k vectors of length n: shape (n, k)
Stack1(list) ==
    LET k == Len(list)
        n == Len(list[1])
    IN [shape |-> <<n, k>>,
        data  |-> [r \in 1..n |-> [c \in 1..k |-> Int16(list[c][r])]]]

SameLength(list) == \A c \in DOMAIN list : Len(list[c]) = Len(list[1])

RknsHeaderAttrName(key) ==
    CASE key = "patientname" -> "name"
      [] key = "patient_additional" -> "additional"
      [] key = "patientcode" -> "patientcode"
      [] key = "sex" -> "sex"
      [] key = "birthdate" -> "birthdate"
      [] key = "admincode" -> "admincode"
      [] key = "technician" -> "technician"
      [] key = "startdate" -> "recording_date"
      [] key = "recording_duration_in_s" -> "recording_duration_in_s"

header_patientinfo_attributes ==
    {"patientname", "patient_additional", "patientcode", "sex", "birthdate"}

header_admininfo_attributes ==
    {"admincode", "technician", "startdate", "recording_duration_in_s"}

HeaderAttrs(header, keys) ==
    LET names == {RknsHeaderAttrName(k) : k \in keys}
        keyOf(nm) == CHOOSE k \in keys : RknsHeaderAttrName(k) = nm
    IN [nm \in names |->
            IF keyOf(nm) = "startdate" THEN isoformat(header[keyOf(nm)])
            ELSE header[keyOf(nm)]]

extract_data(channel_data, signal_headers, header, validate) ==
    LET order   == FgOrder(signal_headers)
        fgs     == {order[c] : c \in DOMAIN order}
        mem(fg) == FgMembers(signal_headers, fg)
        sigs(fg) == [c \in DOMAIN mem(fg) |-> channel_data[mem(fg)[c]]]
        mms(fg)  == [c \in DOMAIN mem(fg) |-> MinmaxColumn(signal_headers[mem(fg)[c]])]
        labels  == {signal_headers[i].label : i \in DOMAIN signal_headers}
        lastOf(l) == CHOOSE i \in DOMAIN signal_headers :
                        /\ signal_headers[i].label = l
                        /\ \A j \in DOMAIN signal_headers :
                              signal_headers[j].label = l => j <= i
        header2 == header @@
                   ("recording_duration_in_s" :>
                        Duration(channel_data, signal_headers, 1))
    IN IF \E fg \in fgs : ~SameLength(sigs(fg))
       THEN [res |-> "ValueError_stack", header |-> header]
       ELSE IF validate /\ ~validate_consistent_duration(channel_data, signal_headers)
       THEN [res |-> "ValueError_duration", header |-> header2]
       ELSE [res |-> "ok",
             header |-> header2,
             fg_order |-> order,
             fg_arrays |->
                [fg \in fgs |-> [signal |-> Stack1(sigs(fg)),
                                 signal_minmaxs |-> Stack1(mms(fg))]],
             fg_attributes |->
                [fg \in fgs |->
                    [channels |-> [c \in DOMAIN mem(fg) |->
                                     signal_headers[mem(fg)[c]].label],
                     sample_frequency_HZ |->
                         signal_headers[mem(fg)[Len(mem(fg))]].sample_frequency]],
             rkns_attributes |->
                [patient_info |-> HeaderAttrs(header2, header_patientinfo_attributes),
                 admin_info |-> HeaderAttrs(header2, header_admininfo_attributes),
                 channel_info |->
                    [l \in labels |->
                        [physical_dimension |-> signal_headers[lastOf(l)].dimension,
                         transducer |-> signal_headers[lastOf(l)].transducer,
                         prefiltering |-> signal_headers[lastOf(l)].prefilter,
                         frequency_group |-> signal_headers[lastOf(l)].frequency_group]]]]

(***************************************************************************)
(* Source files on disk, and what pyedflib.highlevel.read_edf decodes from *)
(* their bytes.                                                            *)
(*   rec1.edf  A at 1 Hz, B at 4 Hz, C at 1 Hz, all spanning 2 s           *)
(*   rec2.edf  D at 2.04 Hz and E at 2 Hz, 4 samples each: one group       *)
(*             fg_2.0, durations that differ                               *)
(*   plus.edf  an EDF+ file (version field "1")                            *)
(*   notes.txt not a waveform file                                         *)
(***************************************************************************)
EdfFiles == {"rec1.edf", "rec2.edf"}

SourceFiles == EdfFiles \cup {"plus.edf", "notes.txt"}

HasEdfSuffix(f) == f \in EdfFiles \cup {"plus.edf"}

Pad7 == <<32, 32, 32, 32, 32, 32, 32>>

FileBytes(f) ==
    CASE f = "rec1.edf"  -> <<48>> \o Pad7 \o <<3, 1, 4>>
      [] f = "rec2.edf"  -> <<48>> \o Pad7 \o <<2, 7>>
      [] f = "plus.edf"  -> <<49>> \o Pad7 \o <<5>>
      [] f = "notes.txt" -> <<104, 105>>

FileMTime(f) ==
    CASE f = "rec1.edf"  -> 1001
      [] f = "rec2.edf"  -> 1002
      [] f = "plus.edf"  -> 1003
      [] f = "notes.txt" -> 1004

ChannelHeader(label, freq, pmin, pmax, dmin, dmax) ==
    [label |-> label, sample_frequency |-> freq,
     physical_min |-> pmin, physical_max |-> pmax,
     digital_min |-> dmin, digital_max |-> dmax,
     dimension |-> "uV", transducer |-> "AgAgCl", prefilter |-> "HP:0.1Hz"]

FileHeader(name) ==
    [patientname |-> name, patient_additional |-> "", patientcode |-> "p1",
     sex |-> "F", birthdate |-> "01 jan 1990", admincode |-> "a1",
     technician |-> "t1", startdate |-> [iso |-> "2020-01-01T00:00:00"]]

Recording(f) ==
    CASE f = "rec1.edf" ->
            [channel_data |-> << <<-2048, 2047>>,
                                 <<0, 1, 2, 3, 252, 253, 254, 255>>,
                                 <<-32768, 32767>> >>,
             signal_headers |->
                <<ChannelHeader("A", 100, FInt(-500), FInt(500), -2048, 2047),
                  ChannelHeader("B", 400, FInt(-1), FInt(1), 0, 255),
                  ChannelHeader("C", 100, FInt(-3), FInt(3), -32768, 32767)>>,
             header |-> FileHeader("rec1")]
      [] f = "rec2.edf" ->
            [channel_data |-> << <<1, 2, 3, 4>>, <<5, 6, 7, 8>> >>,
             signal_headers |->
                <<ChannelHeader("D", 204, FInt(-10), FInt(10), -100, 100),
                  ChannelHeader("E", 200, FInt(-10), FInt(10), -100, 100)>>,
             header |-> FileHeader("rec2")]

\* pyedflib.highlevel.read_edf(filepath, digital=True) on the dumped blob
ReadEdf(bytes) ==
    IF \E f \in EdfFiles : FileBytes(f) = bytes
    THEN [ok |-> TRUE,
          rec |-> Recording(CHOOSE f \in EdfFiles : FileBytes(f) = bytes)]
    ELSE [ok |-> FALSE, rec |-> <<>>]

\* hashlib.md5(...).hexdigest(): a digest of the byte sequence
RECURSIVE Md5From(_, _)
Md5From(h, bytes) ==
    IF bytes = <<>> THEN h
    ELSE Md5From((h * 31 + Head(bytes)) % 9973, Tail(bytes))

Md5(bytes) == Md5From(7, bytes)

(***************************************************************************)
(* Format detection (detectors/edf_detector.py, detectors/registry.py).    *)
(***************************************************************************)
RECURSIVE LStrip(_)
LStrip(b) == IF b # <<>> /\ Head(b) = 32 THEN LStrip(Tail(b)) ELSE b

RECURSIVE RStrip(_)
RStrip(b) ==
    IF b # <<>> /\ b[Len(b)] = 32 THEN RStrip(SubSeq(b, 1, Len(b) - 1)) ELSE b

\* first_byte.decode("ascii").strip()
Strip(b) == RStrip(LStrip(b))

\* detectors.edf_detector.detect_format
edf_detect_format(path) ==
    IF path \notin SourceFiles THEN FileFormat_UNKNOWN
    ELSE IF ~HasEdfSuffix(path) THEN FileFormat_UNKNOWN
    ELSE LET first_byte == SubSeq(FileBytes(path), 1,
                                  IF Len(FileBytes(path)) < 8
                                  THEN Len(FileBytes(path)) ELSE 8)
             edf_version == Strip(first_byte)
         IN IF edf_version = <<48>> THEN FileFormat_EDF
            ELSE IF edf_version = <<49>> THEN FileFormat_EDF_PLUS
            ELSE FileFormat_UNKNOWN

StoreIds == {"mem", "s1"}

\* a destination path with the suffix .zip that does not exist yet
ArchiveIds == {"out.zip"}

\* every store, without a root node
NoStores == [s \in StoreIds \cup ArchiveIds |-> EmptyStore]

\* detectors.rkns_detector.detect_format: a store or a container path
rkns_detect_format(path) ==
    IF path \in StoreIds THEN FileFormat_RKNS ELSE FileFormat_UNKNOWN

\* FileFormatRegistry._detector_fn_path after detectors/__init__.py: the
\* registered detectors, in registration order
Detectors == <<"edf_detector", "rkns_detector">>

\* the detector function a registered path resolves to, applied to path
detector_fn(name, path) ==
    IF name = "edf_detector" THEN edf_detect_format(path)
    ELSE rkns_detect_format(path)

\* the loop of FileFormatRegistry.detect_fileformat over the detectors
\* still to try: the format returned and the detectors invoked
RECURSIVE detect_loop(_, _, _, _)
detect_loop(todo, file_path, detected_format, invoked) ==
    IF todo = <<>> THEN [format |-> detected_format, invoked |-> invoked]
    ELSE LET f == detector_fn(Head(todo), file_path)
         IN IF f # FileFormat_UNKNOWN
            THEN [format |-> f, invoked |-> Append(invoked, Head(todo))]
            ELSE detect_loop(Tail(todo), file_path, f,
                             Append(invoked, Head(todo)))

\* a variant that asks every detector and returns what the last one says
detect_fileformat_run_all(file_path) ==
    [format |-> detector_fn(Detectors[Len(Detectors)], file_path),
     invoked |-> Detectors]

detect_fileformat_run(file_path) ==
    detect_loop(Detectors, file_path, FileFormat_UNKNOWN, <<>>)

\* FileFormatRegistry.detect_fileformat
detect_fileformat(file_path) == detect_fileformat_run(file_path).format

\* AdapterRegistry._adapters after adapters/__init__.py
RegisteredAdapters == {FileFormat_EDF}

(***************************************************************************)
(* Paths of the container layout.                                          *)
(***************************************************************************)
RootPath == <<>>

RawPath == <<raw_root>>

RawSignalPath == <<raw_root, raw_signal>>

RknsPath == <<rkns_root>>

SignalsPath == <<rkns_root, rkns_signals_group>>

AnnotationsPath == <<rkns_root, rkns_annotations_group>>

CurrentVersion == "0.1.0"

\* RKNSBuilder._make_rkns_header
make_rkns_header ==
    [rkns_version |-> CurrentVersion, rkns_implementation |-> "python"]

\* datetime.datetime.now().isoformat(): the instants a container is built at
Times == {"2024-06-01T12:00:00"}

\* RKNSBuilder._init_base_structure on the builder's store, at time now
init_base_structure(st, now) ==
    IF RootPath \in DOMAIN st
    THEN [store |-> st, res |-> "ContainsGroupError"]
    ELSE LET root == update_attrs(create_group(st, RootPath), RootPath,
                        [rkns_header |-> make_rkns_header,
                         creation_time |-> now])
             nodes == {<<raw_root>>, <<history>>, <<popis>>,
                       SignalsPath, AnnotationsPath}
         IN [store |-> create_hierarchy(root, nodes), res |-> "ok"]

\* adapter.populate_raw_from_file(file_path, file_format): the blob, its
\* four attributes, and the format echoed on the raw node
populate_raw_from_file(st, file_path, file_format) ==
    LET bytes == FileBytes(file_path)
        blob  == ArrayNode(<<Len(bytes)>>, bytes,
                    [filename |-> file_path,
                     format |-> file_format,
                     modification_time |-> FileMTime(file_path),
                     md5 |-> Md5(bytes)])
    IN update_attrs((RawSignalPath :> blob) @@ st, RawPath,
                    [format |-> file_format])

\* a variant that clears the raw zone instead
OverwriteDeletePrefix_raw == <<raw_root>>

\* the prefix handed to store.delete_dir when the groups are overwritten
OverwriteDeletePrefix == <<rkns_signals_group>>

\* a variant that takes existing groups as they are and never raises
create_rkns_group_structure_unguarded(st, overwrite_if_exists) ==
    LET nodes == {SignalsPath, AnnotationsPath}
    IN IF ~hierarchy_collides(st, nodes)
       THEN [store |-> create_hierarchy(st, nodes), res |-> "ok"]
       ELSE [store |-> st, res |-> "ok"]

\* RKNSBaseAdapter.create_rkns_group_structure
create_rkns_group_structure(st, overwrite_if_exists) ==
    LET nodes == {SignalsPath, AnnotationsPath}
    IN IF ~hierarchy_collides(st, nodes)
       THEN [store |-> create_hierarchy(st, nodes), res |-> "ok"]
       ELSE IF overwrite_if_exists
       THEN LET cleared == delete_dir(st, OverwriteDeletePrefix)
            IN IF hierarchy_collides(cleared, nodes)
               THEN [store |-> cleared, res |-> "ContainsGroupError"]
               ELSE [store |-> create_hierarchy(cleared, nodes), res |-> "ok"]
       ELSE [store |-> st, res |-> "RuntimeError_AlreadyExists"]

\* the loop over fg_arrays.keys() of RKNSEdfAdapter.populate_rkns_from_raw
RECURSIVE WriteFrequencyGroups(_, _, _)
WriteFrequencyGroups(st, order, x) ==
    IF order = <<>> THEN st
    ELSE LET fg      == Head(order)
             fg_path == Append(RknsPath, fg)
             s1 == update_attrs(create_group(st, fg_path), fg_path,
                                x.fg_attributes[fg])
             s2 == add_child_array(s1, fg_path, rkns_signal,
                        x.fg_arrays[fg].signal.shape,
                        x.fg_arrays[fg].signal.data,
                        [rows |-> "samples", columns |-> "channels"])
             s3 == add_child_array(s2, fg_path, rkns_signal_minmaxs,
                        x.fg_arrays[fg].signal_minmaxs.shape,
                        x.fg_arrays[fg].signal_minmaxs.data,
                        [rows |-> "channels",
                         columns |-> minmax_array_columnorder])
         IN WriteFrequencyGroups(s3, Tail(order), x)

\* RKNSEdfAdapter.populate_rkns_from_raw(raw_node, root_node, ...), with
\* raw_node and root_node the /_raw and / groups of the adapter's store
populate_rkns_from_raw(st, overwrite_if_exists, validate) ==
    IF RawPath \notin DOMAIN st
    THEN [store |-> st, res |-> "RuntimeError_NoNode"]
    ELSE
    LET g == create_rkns_group_structure(st, overwrite_if_exists)
    IN IF g.res # "ok" THEN g
       ELSE IF RawSignalPath \notin DOMAIN g.store
       THEN [store |-> g.store, res |-> "KeyError"]
       ELSE
       LET decoded == ReadEdf(g.store[RawSignalPath].data)
       IN IF ~decoded.ok THEN [store |-> g.store, res |-> "ParseError"]
          ELSE
          LET x == extract_data(
                      decoded.rec.channel_data,
                      add_frequency_groups_to_headers(decoded.rec.signal_headers),
                      decoded.rec.header, validate)
          IN IF x.res # "ok" THEN [store |-> g.store, res |-> x.res]
             ELSE [store |-> WriteFrequencyGroups(
                                update_attrs(g.store, RknsPath, x.rkns_attributes),
                                x.fg_order, x),
                   res |-> "ok"]

\* a variant that leaves out the first byte
reconstruct_original_file_short(st) ==
    IF RawPath \notin DOMAIN st
    THEN [res |-> "RuntimeError_NoNode", bytes |-> <<>>]
    ELSE IF RawSignalPath \notin DOMAIN st
    THEN [res |-> "KeyError", bytes |-> <<>>]
    ELSE [res |-> "ok", bytes |-> Tail(st[RawSignalPath].data)]

\* RKNS._reconstruct_original_file: signal_array[:].tobytes() written out
reconstruct_original_file(st) ==
    IF RawPath \notin DOMAIN st
    THEN [res |-> "RuntimeError_NoNode", bytes |-> <<>>]
    ELSE IF RawSignalPath \notin DOMAIN st
    THEN [res |-> "KeyError", bytes |-> <<>>]
    ELSE [res |-> "ok", bytes |-> st[RawSignalPath].data]

\* _ZarrV3Utils.copy_group_recursive(source_group, target_group) from the
\* root: attributes, arrays with their values and attributes, subgroups
copy_group_recursive(src, dst) ==
    [p \in DOMAIN src |->
        IF src[p].kind = "array"
        THEN ArrayNode(src[p].shape, src[p].data, src[p].attrs)
        ELSE GroupNode(IF p \in DOMAIN dst
                       THEN src[p].attrs @@ dst[p].attrs
                       ELSE src[p].attrs)]
    @@ dst

(***************************************************************************)
(* Structural validation (util/rkns_util.py).                              *)
(***************************************************************************)
\* basename.startswith("fg_"), for the node names of the model
HasFgPrefix(name) == name \in {"fg_1.0", "fg_1.1", "fg_2.0", "fg_4.0"}

ChildNames(st, parent) ==
    {p[Len(p)] : p \in {q \in DOMAIN st :
                          Len(q) = Len(parent) + 1 /\ IsPrefix(parent, q)}}

check_rkns_validity(st) ==
    IF st[RknsPath].kind # "group" THEN "TypeError"
    ELSE IF \E c \in {SignalsPath, AnnotationsPath} : c \notin DOMAIN st
    THEN "ValueError_MissingGroup"
    ELSE IF \E c \in {SignalsPath, AnnotationsPath} : st[c].kind # "group"
    THEN "TypeError"
    ELSE IF \E n \in ChildNames(st, SignalsPath) :
              /\ st[Append(SignalsPath, n)].kind = "group"
              /\ ~HasFgPrefix(n)
    THEN "ValueError_Prefix"
    ELSE IF \E n \in ChildNames(st, SignalsPath) :
              /\ st[Append(SignalsPath, n)].kind = "group"
              /\ \/ Append(Append(SignalsPath, n), rkns_signal) \notin DOMAIN st
                 \/ Append(Append(SignalsPath, n), rkns_signal_minmaxs)
                        \notin DOMAIN st
    THEN "ValueError_MissingArray"
    ELSE "ok"

expected_raw_signal_attributes == {"filename", "format", "st_mtime", "md5"}

check_raw_validity(st) ==
    IF st[RawPath].kind # "group" THEN "TypeError"
    ELSE IF RawSignalPath \notin DOMAIN st THEN "ValueError_MissingGroup"
    ELSE IF \E a \in expected_raw_signal_attributes :
              a \notin DOMAIN st[RawSignalPath].attrs
    THEN "ValueError_MissingRawAttribute"
    ELSE "ok"

check_validity(st) ==
    IF \E a \in {"rkns_header", "creation_time"} : a \notin DOMAIN st[RootPath].attrs
    THEN "ValueError_MissingRootAttribute"
    ELSE IF \E a \in {"rkns_version", "rkns_implementation"} :
              a \notin DOMAIN st[RootPath].attrs.rkns_header
    THEN "ValueError_MissingHeaderAttribute"
    ELSE IF \E g \in {<<raw_root>>, <<rkns_root>>, <<history>>, <<popis>>} :
              g \notin DOMAIN st
    THEN "ValueError_MissingGroup"
    ELSE IF check_rkns_validity(st) # "ok" THEN check_rkns_validity(st)
    ELSE check_raw_validity(st)

(***************************************************************************)
(* RKNSBuilder.from_existing_rkns_store: the outcome of opening store st.  *)
(***************************************************************************)
from_existing_rkns_store(st, validate) ==
    IF RootPath \notin DOMAIN st THEN "RuntimeError_NoNode"
    ELSE IF "rkns_header" \notin DOMAIN st[RootPath].attrs THEN "RKNSParseError"
    ELSE IF \/ "rkns_version" \notin DOMAIN st[RootPath].attrs.rkns_header
            \/ st[RootPath].attrs.rkns_header.rkns_version # CurrentVersion
    THEN "KeyError_version"
    ELSE IF validate /\ check_validity(st) # "ok" THEN check_validity(st)
    ELSE IF RawPath \notin DOMAIN st THEN "RuntimeError_NoNode"
    ELSE IF "format" \notin DOMAIN st[RawPath].attrs THEN "KeyError"
    ELSE IF st[RawPath].attrs.format \notin RegisteredAdapters
    THEN "ValueError_NoAdapter"
    ELSE "ok"

(***************************************************************************)
(* The RKNS object and the cross-cutting guard (util/misc.py).             *)
(***************************************************************************)
NoObj ==
    [handler |-> "none", adapter |-> "none", root_cached |-> FALSE,
     is_closed |-> FALSE, handler_closed |-> FALSE]

\* RKNS.__init__(store_handler, adapter)
NewRKNS(handler, adapter) ==
    [handler |-> handler, adapter |-> adapter, root_cached |-> FALSE,
     is_closed |-> FALSE, handler_closed |-> FALSE]

\* apply_check_open_to_all_methods wraps the callables of the class body
\* whose name does not start with "__"; a property is not callable
Properties == {"patient_info", "admin_info", "channel_info", "tree"}

IsWrapped(name) == name \notin Properties

\* the test of check_open.wrapper: TRUE when the call is refused
check_open_refuses(self, name) == IsWrapped(name) /\ self.is_closed

\* StoreHandlerZarrV3.close on the object's handler
handler_close(self) ==
    IF ~self.handler_closed THEN [self EXCEPT !.handler_closed = TRUE] ELSE self

\* the record of the latest call: its name and arguments, the exception
\* raised or "ok", whether its body ran, whether the handler had been
\* closed when it was made, and the value returned
Call(op, arg, res, ran, out) ==
    [op |-> op, arg |-> arg, res |-> res, ran |-> ran,
     closed |-> rkns.handler_closed, out |-> out]

(***************************************************************************)
(* Read operations of RKNS on the store of its handler.                    *)
(***************************************************************************)
Err(res) == [res |-> res, out |-> <<>>]

\* self.handler.rkns.attrs[name]
rkns_attr(st, name) ==
    IF RknsPath \notin DOMAIN st THEN Err("RuntimeError_NoNode")
    ELSE IF name \notin DOMAIN st[RknsPath].attrs THEN Err("KeyError")
    ELSE [res |-> "ok", out |-> st[RknsPath].attrs[name]]

\* self.handler.signals[fg].attrs[name]
signals_fg_attr(st, fg, name) ==
    IF RknsPath \notin DOMAIN st THEN Err("RuntimeError_NoNode")
    ELSE IF SignalsPath \notin DOMAIN st THEN Err("KeyError")
    ELSE IF Append(SignalsPath, fg) \notin DOMAIN st THEN Err("KeyError")
    ELSE IF name \notin DOMAIN st[Append(SignalsPath, fg)].attrs
    THEN Err("KeyError")
    ELSE [res |-> "ok", out |-> st[Append(SignalsPath, fg)].attrs[name]]

\* RKNS._get_frequencygroup
get_frequencygroup(st, channel_name) ==
    LET ci == rkns_attr(st, "channel_info")
    IN IF ci.res # "ok" THEN ci
       ELSE IF channel_name \notin DOMAIN ci.out THEN Err("KeyError")
       ELSE [res |-> "ok", out |-> ci.out[channel_name].frequency_group]

\* RKNS.get_frequency_by_channel
get_frequency_by_channel(st, channel_name) ==
    LET fg == get_frequencygroup(st, channel_name)
    IN IF fg.res # "ok" THEN fg
       ELSE signals_fg_attr(st, fg.out, "sfreq_Hz")

\* a variant that takes the channels of several groups as those of one
get_signal_selection_any_group(st, a) ==
    IF a.has_channels /\ a.has_sfreq THEN Err("ValueError")
    ELSE IF ~a.has_channels /\ ~a.has_sfreq THEN Err("ValueError")
    ELSE
    LET lookups == [i \in DOMAIN a.channels |->
                        get_frequencygroup(st, a.channels[i])]
        failed  == {i \in DOMAIN lookups : lookups[i].res # "ok"}
        fgs     == {lookups[i].out : i \in DOMAIN lookups}
        fg      == IF a.has_channels THEN CHOOSE g \in fgs : TRUE
                   ELSE get_freq_group(a.sfreq_Hz)
        rate    == signals_fg_attr(st, fg, "sfreq_Hz")
        admin   == rkns_attr(st, "admin_info")
        order   == signals_fg_attr(st, fg, "channels")
        known(c) == \E j \in DOMAIN order.out : order.out[j] = c
    IN IF a.has_channels /\ failed # {}
       THEN lookups[CHOOSE i \in failed : \A j \in failed : i <= j]
       ELSE IF a.has_channels /\ Cardinality(fgs) = 0 THEN Err("ValueError")
       ELSE IF a.has_channels /\ rate.res # "ok" THEN rate
       ELSE IF admin.res # "ok" THEN admin
       ELSE IF a.has_channels /\ order.res # "ok" THEN order
       ELSE IF a.has_channels
               /\ \E i \in DOMAIN a.channels : ~known(a.channels[i])
       THEN Err("KeyError")
       ELSE [res |-> "ok",
             out |-> [fg |-> fg,
                      columns |-> IF a.has_channels THEN a.channels
                                  ELSE <<"...">>]]

\* RKNS.get_signal with the default time range, up to the row and column
\* indices: the exception raised, or "ok" with the frequency group and the
\* columns selected
get_signal_selection(st, a) ==
    IF a.has_channels /\ a.has_sfreq THEN Err("ValueError")
    ELSE IF ~a.has_channels /\ ~a.has_sfreq THEN Err("ValueError")
    ELSE
    LET lookups == [i \in DOMAIN a.channels |->
                        get_frequencygroup(st, a.channels[i])]
        failed  == {i \in DOMAIN lookups : lookups[i].res # "ok"}
        fgs     == {lookups[i].out : i \in DOMAIN lookups}
        fg      == IF a.has_channels THEN CHOOSE g \in fgs : TRUE
                   ELSE get_freq_group(a.sfreq_Hz)
        rate    == signals_fg_attr(st, fg, "sfreq_Hz")
        admin   == rkns_attr(st, "admin_info")
        order   == signals_fg_attr(st, fg, "channels")
        known(c) == \E j \in DOMAIN order.out : order.out[j] = c
    IN IF a.has_channels /\ failed # {}
       THEN lookups[CHOOSE i \in failed : \A j \in failed : i <= j]
       ELSE IF a.has_channels /\ Cardinality(fgs) # 1 THEN Err("ValueError")
       ELSE IF a.has_channels /\ rate.res # "ok" THEN rate
       ELSE IF admin.res # "ok" THEN admin
       ELSE IF a.has_channels /\ order.res # "ok" THEN order
       ELSE IF a.has_channels
               /\ \E i \in DOMAIN a.channels : ~known(a.channels[i])
       THEN Err("KeyError")
       ELSE [res |-> "ok",
             out |-> [fg |-> fg,
                      columns |-> IF a.has_channels THEN a.channels
                                  ELSE <<"...">>]]

\* RKNS._get_signal_by_fg and the indexing of the view: the arrays whose
\* data the call reads
get_signal_by_fg(st, frequency_group) ==
    LET fg_path == Append(SignalsPath, frequency_group)
        digital_signal == Append(fg_path, rkns_signal)
        pminmax_dminmax == Append(fg_path, rkns_signal_minmaxs)
    IN IF fg_path \notin DOMAIN st THEN [res |-> "KeyError", reads |-> {}]
       ELSE IF digital_signal \notin DOMAIN st
       THEN [res |-> "KeyError", reads |-> {}]
       ELSE IF pminmax_dminmax \notin DOMAIN st
       THEN [res |-> "KeyError", reads |-> {}]
       ELSE [res |-> "ok", reads |-> {pminmax_dminmax, digital_signal}]

\* RKNS.get_signal(channels, sfreq_Hz)
get_signal(st, a) ==
    LET s == get_signal_selection(st, a)
    IN IF s.res # "ok" THEN [res |-> s.res, out |-> <<>>, reads |-> {}]
       ELSE [res |-> get_signal_by_fg(st, s.out.fg).res,
             out |-> IF get_signal_by_fg(st, s.out.fg).res = "ok"
                     THEN s.out ELSE <<>>,
             reads |-> get_signal_by_fg(st, s.out.fg).reads]

\* the place of a node name in the order of Python strings, for the names
\* of the model
NameRank(name) ==
    CASE name = "_raw" -> 1
      [] name = "a" -> 2
      [] name = "annotations" -> 3
      [] name = "b" -> 4
      [] name = "fg_1.0" -> 5
      [] name = "fg_1.1" -> 6
      [] name = "fg_2.0" -> 7
      [] name = "fg_4.0" -> 8
      [] name = "g" -> 9
      [] name = "history" -> 10
      [] name = "popis" -> 11
      [] name = "rkns" -> 12
      [] name = "signal" -> 13
      [] name = "signal_minmaxs" -> 14
      [] name = "signals" -> 15

\* key1 < key2 for the member keys "x/y/z" of two paths
RECURSIVE KeyLess(_, _)
KeyLess(p, q) ==
    IF p = <<>> THEN q # <<>>
    ELSE IF q = <<>> THEN FALSE
    ELSE IF Head(p) = Head(q) THEN KeyLess(Tail(p), Tail(q))
    ELSE NameRank(Head(p)) < NameRank(Head(q))

\* sorted(...) of a set of member keys
RECURSIVE SortedKeys(_)
SortedKeys(S) ==
    IF S = {} THEN <<>>
    ELSE LET m == CHOOSE x \in S : \A y \in S \ {x} : KeyLess(x, y)
         IN <<m>> \o SortedKeys(S \ {m})

\* no limit on the depth (max_depth=None), or a limit of k levels below
\* the children
NoMaxDepth == [limited |-> FALSE, k |-> 0]

MaxDepth(k) == [limited |-> TRUE, k |-> k]

\* group.members(max_depth=max_depth): the keys of the descendants
members(nodes, max_depth) ==
    {p \in DOMAIN nodes :
        /\ p # RootPath
        /\ max_depth.limited => Len(p) <= max_depth.k + 1}

\* np.allclose(a, b) on two numbers: |a - b| <= atol + rtol * |b| with
\* rtol = 1e-05 and atol = 1e-08
allclose(a, b) == Abs(a - b) <= (1 + 1000 * Abs(b)) \div 100000000

\* np.allclose(node1[:], node2[:]) for two arrays of one shape
allclose_arrays(node1, node2) ==
    IF Len(node1.shape) = 1
    THEN \A r \in DOMAIN node1.data : allclose(node1.data[r], node2.data[r])
    ELSE \A r \in DOMAIN node1.data : \A c \in DOMAIN node1.data[r] :
            allclose(node1.data[r][c], node2.data[r][c])

\* _ZarrV3Utils.compare_attrs on two attribute dictionaries
compare_attrs(attr1, attr2) == attr1 = attr2

\* the loop of deep_compare_groups over zip(members1, members2)
RECURSIVE compare_members(_, _, _, _, _, _)
compare_members(nodes1, nodes2, members1, members2, compare_values, compare_attributes) ==
    IF members1 = <<>> THEN "ok"
    ELSE LET key1  == Head(members1)
             key2  == Head(members2)
             node1 == nodes1[key1]
             node2 == nodes2[key2]
         IN IF key1 # key2 THEN "PathMismatchError"
            ELSE IF node1.kind # node2.kind THEN "GroupComparisonError"
            ELSE IF node1.kind = "array" /\ node1.shape # node2.shape
            THEN "ArrayShapeMismatchError"
            ELSE IF node1.kind = "array" /\ compare_values
                    /\ ~allclose_arrays(node1, node2)
            THEN "ArrayValueMismatchError"
            ELSE IF compare_attributes
                    /\ DOMAIN node1.attrs # DOMAIN node2.attrs
            THEN "AttributeMismatchError"
            ELSE IF compare_attributes
                    /\ ~compare_attrs(node1.attrs, node2.attrs)
            THEN "AttributeMismatchError"
            ELSE compare_members(nodes1, nodes2, Tail(members1),
                                 Tail(members2), compare_values,
                                 compare_attributes)

\* deep_compare_groups with the root attributes compared before the
\* member counts
deep_compare_groups_attrs_first(group1, group2, max_depth, compare_values, compare_attributes) ==
    LET members1 == SortedKeys(members(group1.nodes, max_depth))
        members2 == SortedKeys(members(group2.nodes, max_depth))
    IN IF group1.name # group2.name THEN "NameMismatchError"
       ELSE IF compare_attributes
               /\ ~compare_attrs(group1.nodes[RootPath].attrs,
                                 group2.nodes[RootPath].attrs)
       THEN "AttributeMismatchError"
       ELSE IF Len(members1) # Len(members2) THEN "MemberCountMismatchError"
       ELSE compare_members(group1.nodes, group2.nodes, members1, members2,
                            compare_values, compare_attributes)

\* _ZarrV3Utils.deep_compare_groups: "ok" for True, or the error raised.
\* A group is its name and the nodes it holds, the root at <<>>
deep_compare_groups(group1, group2, max_depth, compare_values, compare_attributes) ==
    LET members1 == SortedKeys(members(group1.nodes, max_depth))
        members2 == SortedKeys(members(group2.nodes, max_depth))
    IN IF group1.name # group2.name THEN "NameMismatchError"
       ELSE IF Len(members1) # Len(members2) THEN "MemberCountMismatchError"
       ELSE IF compare_attributes
               /\ ~compare_attrs(group1.nodes[RootPath].attrs,
                                 group2.nodes[RootPath].attrs)
       THEN "AttributeMismatchError"
       ELSE compare_members(group1.nodes, group2.nodes, members1, members2,
                            compare_values, compare_attributes)

\* the root group of a store
RootGroup(st) == [name |-> "/", nodes |-> st]

\* StoreHandlerZarrV3.deep_compare(other): self.root, then other.root
deep_compare(st, root_cached, other) ==
    IF RootPath \notin DOMAIN st /\ ~root_cached THEN "RuntimeError_NoNode"
    ELSE IF RootPath \notin DOMAIN other THEN "RuntimeError_NoNode"
    ELSE IF RootPath \notin DOMAIN st THEN "MemberCountMismatchError"
    ELSE deep_compare_groups(RootGroup(st), RootGroup(other), NoMaxDepth,
                             TRUE, TRUE)

\* zarr.group(store=target_store, overwrite=True)
group_overwrite == (RootPath :> GroupNode(NoAttrs))

\* a variant that takes no destination for an archive
IsZipStore_never(dest) == FALSE

\* isinstance(target_store, zarr.storage.ZipStore)
IsZipStore(dest) == dest \in ArchiveIds

\* StoreHandlerZarrV3.export_to_path_or_store: the destination afterwards.
\* target is what the destination holds, same tells that the destination
\* is the store of the handler itself, root_cached that the handler holds
\* its root group from an earlier access (with the attributes it had then)
export_to_path_or_store(st, root_cached, dest, target, same) ==
    IF IsZipStore(dest)
    THEN [store |-> target, res |-> "NotImplementedError"]
    ELSE IF ~same
    THEN IF RootPath \notin DOMAIN st
         THEN [store |-> group_overwrite, res |-> "RuntimeError_NoNode"]
         ELSE [store |-> copy_group_recursive(st, group_overwrite),
               res |-> "ok"]
    ELSE [store |-> IF root_cached /\ RootPath \in DOMAIN st
                    THEN (RootPath :> GroupNode(st[RootPath].attrs))
                    ELSE group_overwrite,
          res |-> "ok"]

(***************************************************************************)
(* The container life cycle: one RKNS object over two stores, "mem"        *)
(* standing for the MemoryStore a builder makes when it is given no target *)
(* store.  A builder call that raises leaves no object, and another may    *)
(* follow.                                                                 *)
(***************************************************************************)
NoExtract == [phase |-> "idle"]

NoLazy == [phase |-> "idle"]

\* a store written earlier in the layout of the format: root, raw zone
\* with the blob of f, history and popis, and no normalized zone yet
RawOnlyStore(f) ==
    populate_raw_from_file(
        create_hierarchy(
            update_attrs(create_group(EmptyStore, RootPath), RootPath,
                         [rkns_header |-> make_rkns_header,
                          creation_time |-> "2024-01-01T00:00:00"]),
            {<<raw_root>>, <<history>>, <<popis>>}),
        f, FileFormat_EDF)

Init ==
    /\ \E f \in EdfFiles \cup {"none"} :
          stores = [NoStores EXCEPT
                       !["s1"] = IF f = "none" THEN EmptyStore
                                 ELSE RawOnlyStore(f)]
    /\ rkns = NoObj
    /\ last = [op |-> "init", arg |-> <<>>, res |-> "ok", ran |-> FALSE,
               closed |-> FALSE, out |-> <<>>]
    /\ ex = NoExtract
    /\ lz = NoLazy

Refuse(op, arg) ==
    /\ last' = Call(op, arg, "RuntimeError_Closed", FALSE, <<>>)
    /\ UNCHANGED <<stores, rkns>>

\* RKNS.from_file(file_path, populate_from_raw, target_store) at time now
FromFile(file_path, populate_from_raw, target, now) ==
    LET st0 == IF target = "mem" THEN [stores EXCEPT !["mem"] = EmptyStore]
               ELSE stores
        file_format == detect_fileformat(file_path)
        arg == [file_path |-> file_path,
                populate_from_raw |-> populate_from_raw,
                target_store |-> target]
        Done(st, obj, res) ==
            /\ stores' = st
            /\ rkns' = obj
            /\ last' = Call("from_file", arg, res, TRUE,
                            detect_fileformat_run(file_path))
    IN
    /\ rkns = NoObj
    /\ UNCHANGED <<ex, lz>>
    /\ IF file_format = FileFormat_UNKNOWN
       THEN Done(st0, NoObj, "NotImplementedError")
       ELSE IF file_format = FileFormat_RKNS
       THEN LET r == from_existing_rkns_store(st0[file_path], TRUE)
            IN Done(st0,
                    IF r = "ok"
                    THEN [NewRKNS(file_path, target) EXCEPT !.root_cached = TRUE]
                    ELSE NoObj,
                    r)
       ELSE
       LET b == init_base_structure(st0[target], now)
       IN IF b.res # "ok" THEN Done(st0, NoObj, b.res)
          ELSE IF file_format \notin RegisteredAdapters
          THEN Done([st0 EXCEPT ![target] = b.store], NoObj,
                    "ValueError_NoAdapter")
          ELSE
          LET raw == populate_raw_from_file(b.store, file_path, file_format)
              p   == populate_rkns_from_raw(raw, FALSE, TRUE)
          IN IF ~populate_from_raw
             THEN Done([st0 EXCEPT ![target] = raw],
                       NewRKNS(target, target), "ok")
             ELSE Done([st0 EXCEPT ![target] = p.store],
                       IF p.res = "ok" THEN NewRKNS(target, target) ELSE NoObj,
                       p.res)

\* RKNSBuilder(target).from_existing_rkns_store(store, validate)
FromExistingStore(target, store, validate) ==
    LET st0 == IF target = "mem" THEN [stores EXCEPT !["mem"] = EmptyStore]
               ELSE stores
        r   == from_existing_rkns_store(st0[store], validate)
    IN /\ rkns = NoObj
       /\ UNCHANGED <<ex, lz>>
       /\ stores' = st0
       /\ rkns' = IF r = "ok"
                  THEN [NewRKNS(store, target) EXCEPT !.root_cached = TRUE]
                  ELSE NoObj
       /\ last' = Call("from_existing_rkns_store",
                       [store |-> store, validate |-> validate,
                        target_store |-> target],
                       r, TRUE, <<>>)

\* RKNS.populate_rkns_from_raw(overwrite_if_exists, validate)
Populate(overwrite_if_exists, validate) ==
    LET arg == [overwrite_if_exists |-> overwrite_if_exists,
                validate |-> validate]
        p   == populate_rkns_from_raw(stores[rkns.adapter],
                                      overwrite_if_exists, validate)
    IN /\ rkns # NoObj
       /\ UNCHANGED <<ex, lz>>
       /\ IF check_open_refuses(rkns, "populate_rkns_from_raw")
          THEN Refuse("populate_rkns_from_raw", arg)
          ELSE /\ stores' = [stores EXCEPT ![rkns.adapter] = p.store]
               /\ last' = Call("populate_rkns_from_raw", arg, p.res, TRUE, <<>>)
               /\ UNCHANGED rkns

\* RKNS.reset_rkns()
ResetRkns ==
    LET p == populate_rkns_from_raw(stores[rkns.adapter], TRUE, TRUE)
    IN /\ rkns # NoObj
       /\ UNCHANGED <<ex, lz>>
       /\ IF check_open_refuses(rkns, "reset_rkns")
          THEN Refuse("reset_rkns", <<>>)
          ELSE /\ stores' = [stores EXCEPT ![rkns.adapter] = p.store]
               /\ last' = Call("reset_rkns", <<>>, p.res, TRUE, <<>>)
               /\ UNCHANGED rkns

\* the selections get_signal is called with
GetSignalArgs ==
    [channels : {<<>>}, has_channels : {FALSE},
     sfreq_Hz : {100, 400}, has_sfreq : BOOLEAN]
    \cup [channels : {<<"A">>, <<"A", "B">>, <<"Z">>, <<>>},
          has_channels : {TRUE}, sfreq_Hz : {100}, has_sfreq : BOOLEAN]

ChannelNames == {"A", "B", "D", "Z"}

\* RKNS.get_signal(channels, sfreq_Hz)
GetSignal(a) ==
    LET r == get_signal(stores[rkns.handler], a)
    IN /\ rkns # NoObj
       /\ UNCHANGED <<ex, lz>>
       /\ IF check_open_refuses(rkns, "get_signal")
          THEN Refuse("get_signal", a)
          ELSE /\ last' = Call("get_signal", a, r.res, TRUE,
                               [selection |-> r.out, reads |-> r.reads])
               /\ UNCHANGED <<stores, rkns>>

\* RKNS.get_frequency_by_channel(channel_name)
GetFrequencyByChannel(c) ==
    LET r == get_frequency_by_channel(stores[rkns.handler], c)
    IN /\ rkns # NoObj
       /\ UNCHANGED <<ex, lz>>
       /\ IF check_open_refuses(rkns, "get_frequency_by_channel")
          THEN Refuse("get_frequency_by_channel", c)
          ELSE /\ last' = Call("get_frequency_by_channel", c, r.res, TRUE,
                               r.out)
               /\ UNCHANGED <<stores, rkns>>

\* the properties RKNS.patient_info, RKNS.admin_info, RKNS.channel_info
Accessor(name) ==
    LET r == rkns_attr(stores[rkns.handler], name)
    IN /\ rkns # NoObj
       /\ UNCHANGED <<ex, lz>>
       /\ IF check_open_refuses(rkns, name)
          THEN Refuse(name, <<>>)
          ELSE /\ last' = Call(name, <<>>, r.res, TRUE, r.out)
               /\ UNCHANGED <<stores, rkns>>

\* RKNS._reconstruct_original_file(file_path): out is what the file holds
Reconstruct ==
    LET r == reconstruct_original_file(stores[rkns.handler])
    IN /\ rkns # NoObj
       /\ UNCHANGED <<ex, lz>>
       /\ IF check_open_refuses(rkns, "_reconstruct_original_file")
          THEN Refuse("_reconstruct_original_file", <<>>)
          ELSE /\ last' = Call("_reconstruct_original_file", <<>>, r.res,
                               TRUE, r.bytes)
               /\ UNCHANGED <<stores, rkns>>

\* RKNS.is_equal_to(other), other being an RKNS over the store o
IsEqualTo(o) ==
    LET r == deep_compare(stores[rkns.handler], rkns.root_cached, stores[o])
    IN /\ rkns # NoObj
       /\ UNCHANGED <<ex, lz>>
       /\ IF check_open_refuses(rkns, "is_equal_to")
          THEN Refuse("is_equal_to", o)
          ELSE /\ last' = Call("is_equal_to", o, r, TRUE, r = "ok")
               /\ rkns' = IF RootPath \in DOMAIN stores[rkns.handler]
                          THEN [rkns EXCEPT !.root_cached = TRUE] ELSE rkns
               /\ UNCHANGED stores

\* RKNS.export(path_or_store), the destination being the Store dest
Export(dest) ==
    LET r == export_to_path_or_store(stores[rkns.handler], rkns.root_cached,
                                     dest, stores[dest], dest = rkns.handler)
    IN /\ rkns # NoObj
       /\ UNCHANGED <<ex, lz>>
       /\ IF check_open_refuses(rkns, "export")
          THEN Refuse("export", dest)
          ELSE /\ stores' = [stores EXCEPT ![dest] = r.store]
               /\ last' = Call("export", dest, r.res, TRUE, <<>>)
               /\ rkns' = IF r.res = "ok"
                          THEN [rkns EXCEPT !.root_cached = TRUE] ELSE rkns

\* handler.close(), called directly or by RKNS.__exit__
Close(how) ==
    /\ rkns # NoObj
    /\ rkns' = handler_close(rkns)
    /\ last' = Call(how, <<>>, "ok", TRUE, <<>>)
    /\ UNCHANGED <<stores, ex, lz>>

Next ==
    \/ \E file_path \in SourceFiles \cup {"s1"},
          populate_from_raw \in BOOLEAN, target \in StoreIds, now \in Times :
          FromFile(file_path, populate_from_raw, target, now)
    \/ \E target \in StoreIds, store \in {"s1"}, validate \in BOOLEAN :
          FromExistingStore(target, store, validate)
    \/ \E overwrite_if_exists \in BOOLEAN, validate \in BOOLEAN :
          Populate(overwrite_if_exists, validate)
    \/ ResetRkns
    \/ \E a \in GetSignalArgs : GetSignal(a)
    \/ \E c \in ChannelNames : GetFrequencyByChannel(c)
    \/ \E name \in {"patient_info", "admin_info", "channel_info"} :
          Accessor(name)
    \/ Reconstruct
    \/ \E o \in StoreIds : IsEqualTo(o)
    \/ \E dest \in StoreIds \cup ArchiveIds : Export(dest)
    \/ \E how \in {"close", "__exit__"} : Close(how)

Spec == Init /\ [][Next]_vars

(***************************************************************************)
(* Vocabulary of the properties of the life cycle.                         *)
(***************************************************************************)
\* the frequency groups of a store: fg_ nodes below /rkns
FgPaths(st) ==
    {p \in DOMAIN st :
        /\ Len(p) >= 2
        /\ p[1] = rkns_root
        /\ HasFgPrefix(p[Len(p)])
        /\ st[p].kind = "group"}

HasFrequencyGroups(st) == FgPaths(st) # {}

RawBlobAttributes == {"filename", "format", "modification_time", "md5"}

\* the raw zone holds the blob and its attributes
RawPopulated(st) ==
    /\ RawSignalPath \in DOMAIN st
    /\ RawBlobAttributes \subseteq DOMAIN st[RawSignalPath].attrs

\* the normalized zone: /rkns and all below it
NormalizedZone(st) == Restrict(st, {p \in DOMAIN st : IsPrefix(RknsPath, p)})

\* the normalized zone has content: something exists below /rkns
NormalizedHasContent(st) ==
    \E p \in DOMAIN st : IsPrefix(RknsPath, p) /\ p # RknsPath

IsSupportedFile(f) == detect_fileformat(f) \in RegisteredAdapters

FrameOps ==
    {"populate_rkns_from_raw", "reset_rkns", "get_signal", "export",
     "is_equal_to", "_reconstruct_original_file"}

\* the raw blob of st is in st2 with the same bytes and attributes
RawKept(st, st2) ==
    RawSignalPath \in DOMAIN st =>
        /\ RawSignalPath \in DOMAIN st2
        /\ st2[RawSignalPath].data = st[RawSignalPath].data
        /\ \A a \in RawBlobAttributes :
              a \in DOMAIN st[RawSignalPath].attrs =>
                 /\ a \in DOMAIN st2[RawSignalPath].attrs
                 /\ st2[RawSignalPath].attrs[a] = st[RawSignalPath].attrs[a]

(***************************************************************************)
(* C1. Once the handler of a container has been closed, a further close    *)
(* does not raise, and every other operation called on the RKNS object,    *)
(* the accessor properties included, raises the closed error without       *)
(* running its body.                                                       *)
(***************************************************************************)
C1_ClosedRefusesEveryOperation ==
    last.closed =>
        IF last.op \in {"close", "__exit__"}
        THEN last.res = "ok"
        ELSE last.res = "RuntimeError_Closed" /\ ~last.ran

(***************************************************************************)
(* C2. A store holds frequency groups only if its raw zone holds the blob  *)
(* and its attributes; populate_rkns_from_raw and reset_rkns succeed only  *)
(* on a populated raw zone; from_file without population returns a         *)
(* container with the raw blob and no frequency group; from_file with      *)
(* population of a supported file into a fresh store returns successfully  *)
(* with frequency groups written.                                          *)
(***************************************************************************)
C2_GroupsOnlyOverRaw ==
    \A s \in StoreIds : HasFrequencyGroups(stores[s]) => RawPopulated(stores[s])

C2_PopulateNeedsRaw ==
    (/\ last.op \in {"populate_rkns_from_raw", "reset_rkns"}
     /\ last.ran
     /\ last.res = "ok")
        => RawPopulated(stores[rkns.adapter])

C2_FromFileRawOnly ==
    (/\ last.op = "from_file"
     /\ IsSupportedFile(last.arg.file_path)
     /\ ~last.arg.populate_from_raw
     /\ last.res = "ok")
        => /\ RawPopulated(stores[rkns.handler])
           /\ ~HasFrequencyGroups(stores[rkns.handler])

C2_FromFileNormalized ==
    (/\ last.op = "from_file"
     /\ IsSupportedFile(last.arg.file_path)
     /\ last.arg.populate_from_raw
     /\ last.arg.target_store = "mem")
        => /\ last.res = "ok"
           /\ RawPopulated(stores[rkns.handler])
           /\ HasFrequencyGroups(stores[rkns.handler])

C2_LifeCycle ==
    /\ C2_GroupsOnlyOverRaw
    /\ C2_PopulateNeedsRaw
    /\ C2_FromFileRawOnly
    /\ C2_FromFileNormalized

(***************************************************************************)
(* C3. populate_rkns_from_raw with overwrite_if_exists = false on a        *)
(* container whose normalized zone has content raises the already-exists   *)
(* error and leaves the normalized zone as it was.                         *)
(***************************************************************************)
C3_NoOverwriteKeepsZone ==
    [][(/\ last'.op = "populate_rkns_from_raw"
        /\ last'.ran
        /\ ~last'.arg.overwrite_if_exists
        /\ RawPath \in DOMAIN stores[rkns.adapter]
        /\ NormalizedHasContent(stores[rkns.adapter]))
          => /\ last'.res = "RuntimeError_AlreadyExists"
             /\ NormalizedZone(stores'[rkns.adapter])
                   = NormalizedZone(stores[rkns.adapter])]_vars

C3_Witness ==
    /\ last.op = "populate_rkns_from_raw"
    /\ ~last.arg.overwrite_if_exists
    /\ last.res = "RuntimeError_AlreadyExists"
    /\ HasFrequencyGroups(stores[rkns.adapter])

(***************************************************************************)
(* C4. reset_rkns on a container that holds the raw blob and frequency     *)
(* groups succeeds and leaves a normalized zone equal, node by node, to    *)
(* the one it found.                                                       *)
(***************************************************************************)
C4_ResetIdempotent ==
    [][(/\ last'.op = "reset_rkns"
        /\ last'.ran
        /\ RawPopulated(stores[rkns.adapter])
        /\ HasFrequencyGroups(stores[rkns.adapter]))
          => /\ last'.res = "ok"
             /\ NormalizedZone(stores'[rkns.adapter])
                   = NormalizedZone(stores[rkns.adapter])]_vars

(***************************************************************************)
(* C5. populate_rkns_from_raw, reset_rkns, get_signal, export, is_equal_to *)
(* and _reconstruct_original_file leave the bytes of /_raw/signal and its  *)
(* attributes filename, format, modification_time and md5 as they were,    *)
(* in every store other than the destination an export writes to.  The     *)
(* statement without that exception is C5_RawFrame.                        *)
(***************************************************************************)
C5_RawFrameOffDestination ==
    [][\A s \in StoreIds :
          (/\ last'.op \in FrameOps
           /\ ~(last'.op = "export" /\ last'.ran /\ last'.arg = s))
             => RawKept(stores[s], stores'[s])]_vars

C5_RawFrame ==
    [][last'.op \in FrameOps
          => RawKept(stores[rkns.handler], stores'[rkns.handler])]_vars

C5_Witness ==
    /\ last.op = "reset_rkns"
    /\ last.ran
    /\ RawPopulated(stores[rkns.adapter])
    /\ HasFrequencyGroups(stores[rkns.adapter])

MaxChannels == 3

Labels == {"A", "B"}

\* hundredths of a hertz: 1 Hz, 1.04 Hz, 4 Hz
Rates == {100, 104, 400}

Lengths == {1, 4}

\* the r-th digital sample of the i-th channel, an int16 as EDF stores it
SampleOf(i, r) ==
    CASE i = 1 -> -32768 + (r - 1)
      [] i = 2 -> 32767 - (r - 1)
      [] OTHER -> 100 * i + r

ChannelInputs == [label : Labels, rate : Rates, len : Lengths]

DecodedChannelData(chs) ==
    [i \in DOMAIN chs |-> [r \in 1..chs[i].len |-> SampleOf(i, r)]]

\* the physical maximum in the header of the i-th channel: 500, 0.5 or 3
PhysicalMaxOf(i) ==
    CASE i = 1 -> FInt(500)
      [] i = 2 -> Fin(1, 2)
      [] OTHER -> FInt(3)

DecodedSignalHeaders(chs) ==
    [i \in DOMAIN chs |->
        ChannelHeader(chs[i].label, chs[i].rate, FNeg(PhysicalMaxOf(i)),
                      PhysicalMaxOf(i), -2048, 2047)]

SeqsUpTo(S, n) == UNION {[1..k -> S] : k \in 1..n}

InitExtract ==
    /\ stores = NoStores
    /\ rkns = NoObj
    /\ last = [op |-> "init", arg |-> <<>>, res |-> "ok", ran |-> FALSE,
               closed |-> FALSE, out |-> <<>>]
    /\ lz = NoLazy
    /\ \E chs \in SeqsUpTo(ChannelInputs, MaxChannels) :
          ex = [phase |-> "decoded",
                channel_data |-> DecodedChannelData(chs),
                signal_headers |-> DecodedSignalHeaders(chs),
                header |-> FileHeader("rec")]

\* add_frequency_groups_to_headers(signal_headers), in place
AddFrequencyGroups ==
    /\ ex.phase = "decoded"
    /\ ex' = [ex EXCEPT !.phase = "tagged",
                        !.signal_headers =
                            add_frequency_groups_to_headers(ex.signal_headers)]
    /\ UNCHANGED <<stores, rkns, last, lz>>

\* cls.extract_data(channel_data, signal_headers, header, validate)
ExtractData(validate) ==
    /\ ex.phase = "tagged"
    /\ LET x == extract_data(ex.channel_data, ex.signal_headers, ex.header,
                             validate)
       IN ex' = [phase |-> "extracted",
                 channel_data |-> ex.channel_data,
                 signal_headers |-> ex.signal_headers,
                 header |-> x.header,
                 validate |-> validate,
                 x |-> x]
    /\ UNCHANGED <<stores, rkns, last, lz>>

NextExtract ==
    \/ AddFrequencyGroups
    \/ \E validate \in BOOLEAN : ExtractData(validate)

SpecExtract == InitExtract /\ [][NextExtract]_vars

(***************************************************************************)
(* The lazy view on its own: one channel, one digital code.  The four      *)
(* bounds come as int16 when read from signal_minmaxs, as float64 when     *)
(* handed over by a caller; the digital code is an int16.                  *)
(***************************************************************************)
PhysicalBounds == {-1, 0, 5}

DigitalBounds == {-32768, 0, 10, 32767}

DigitalCodes == {-32768, 0, 3, 10, 32767}

\* a - b in the dtype of the operands
ArraySub(a, b, dtype) ==
    IF dtype = "int16" THEN FInt(Int16(a - b)) ELSE FInt(a - b)

\* LazySignal.from_minmaxs: the scale and the bias of the view
from_minmaxs(pmin, pmax, dmin, dmax, dtype) ==
    LET m == FDiv(ArraySub(pmax, pmin, dtype), ArraySub(dmax, dmin, dtype))
    IN [m |-> m, bias |-> FSub(FDiv(FInt(pmax), m), FInt(dmax))]

\* LazySignal._transform: _m * (data_slice + _bias)
transform(m, bias, data_slice) == FMul(m, FAdd(FInt(data_slice), bias))

InitLazy ==
    /\ stores = NoStores
    /\ rkns = NoObj
    /\ last = [op |-> "init", arg |-> <<>>, res |-> "ok", ran |-> FALSE,
               closed |-> FALSE, out |-> <<>>]
    /\ ex = NoExtract
    /\ \E pmin \in PhysicalBounds, pmax \in PhysicalBounds,
          dmin \in DigitalBounds, dmax \in DigitalBounds,
          dtype \in {"int16", "float64"} :
          lz = [phase |-> "minmaxs", pmin |-> pmin, pmax |-> pmax,
                dmin |-> dmin, dmax |-> dmax, dtype |-> dtype]

\* LazySignal.from_minmaxs(source, pmin, pmax, dmin, dmax)
FromMinmaxs ==
    /\ lz.phase = "minmaxs"
    /\ LET v == from_minmaxs(lz.pmin, lz.pmax, lz.dmin, lz.dmax, lz.dtype)
       IN lz' = [phase |-> "view", pmin |-> lz.pmin, pmax |-> lz.pmax,
                 dmin |-> lz.dmin, dmax |-> lz.dmax, dtype |-> lz.dtype,
                 m |-> v.m, bias |-> v.bias]
    /\ UNCHANGED <<stores, rkns, last, ex>>

\* LazySignal.__getitem__ on an element holding the digital code d
GetItem(d) ==
    /\ lz.phase = "view"
    /\ lz' = [phase |-> "read", pmin |-> lz.pmin, pmax |-> lz.pmax,
              dmin |-> lz.dmin, dmax |-> lz.dmax, dtype |-> lz.dtype,
              m |-> lz.m, bias |-> lz.bias,
              d |-> d, value |-> transform(lz.m, lz.bias, d)]
    /\ UNCHANGED <<stores, rkns, last, ex>>

NextLazy ==
    \/ FromMinmaxs
    \/ \E d \in DigitalCodes : GetItem(d)

SpecLazy == InitLazy /\ [][NextLazy]_vars

(***************************************************************************)
(* C7. The channels lists written by extract_data partition the channels   *)
(* of the source: every source channel name is in exactly one list, at one *)
(* place; the lists together hold as many entries as the source has        *)
(* channels and no name twice; every name of channel_info is in exactly    *)
(* one list, that of the group its frequency_group names.                  *)
(***************************************************************************)
ListsHolding(x, name) ==
    {fg \in DOMAIN x.fg_attributes :
        \E c \in DOMAIN x.fg_attributes[fg].channels :
            x.fg_attributes[fg].channels[c] = name}

PlacesHolding(x, name) ==
    UNION {{<<fg, c>> : c \in {c \in DOMAIN x.fg_attributes[fg].channels :
                                 x.fg_attributes[fg].channels[c] = name}} :
           fg \in DOMAIN x.fg_attributes}

C7_Partition ==
    (ex.phase = "extracted" /\ ex.x.res = "ok") =>
        /\ \A i \in DOMAIN ex.signal_headers :
              Cardinality(PlacesHolding(ex.x, ex.signal_headers[i].label)) = 1
        /\ \A name \in DOMAIN ex.x.rkns_attributes.channel_info :
              /\ Cardinality(ListsHolding(ex.x, name)) = 1
              /\ ex.x.rkns_attributes.channel_info[name].frequency_group
                    \in ListsHolding(ex.x, name)

(***************************************************************************)
(* C8. Every frequency group of a container has the attribute sfreq_Hz,    *)
(* equal to the rate of each member channel rounded to one decimal, and    *)
(* get_frequency_by_channel(c) returns that rate for a channel c of the    *)
(* container.                                                              *)
(***************************************************************************)
SourceHeaders(st) == Recording(st[RawSignalPath].attrs.filename).signal_headers

SourceLabels(st) ==
    {SourceHeaders(st)[i].label : i \in DOMAIN SourceHeaders(st)}

\* the rate of channel c rounded to one decimal, in hundredths of a hertz
RoundedSourceRate(st, c) ==
    10 * Round1(SourceHeaders(st)[CHOOSE i \in DOMAIN SourceHeaders(st) :
                                    SourceHeaders(st)[i].label = c].sample_frequency)

C8_GroupRate ==
    /\ \A s \in StoreIds : \A p \in FgPaths(stores[s]) :
          /\ "sfreq_Hz" \in DOMAIN stores[s][p].attrs
          /\ \A c \in DOMAIN stores[s][p].attrs.channels :
                stores[s][p].attrs.sfreq_Hz
                    = RoundedSourceRate(stores[s], stores[s][p].attrs.channels[c])
    /\ (/\ last.op = "get_frequency_by_channel"
        /\ last.ran
        /\ HasFrequencyGroups(stores[rkns.handler])
        /\ last.arg \in SourceLabels(stores[rkns.handler]))
          => /\ last.res = "ok"
             /\ last.out = RoundedSourceRate(stores[rkns.handler], last.arg)

(***************************************************************************)
(* C9. For every frequency group extract_data returns, with k the number   *)
(* of source channels of that group: signal has shape (n_samples, k),      *)
(* signal_minmaxs has shape (4, k), channels has length k and lists the    *)
(* labels in source order, and column c of signal holds the digital        *)
(* samples of the c-th source channel of the group.                        *)
(***************************************************************************)
GroupChannels(fg) ==
    {i \in DOMAIN ex.signal_headers :
        get_freq_group(ex.signal_headers[i].sample_frequency) = fg}

C10_TwoPointCalibration ==
    (lz.phase = "read" /\ lz.dmax # lz.dmin) =>
        lz.value = Fin(lz.pmin * (lz.dmax - lz.dmin)
                          + (lz.d - lz.dmin) * (lz.pmax - lz.pmin),
                       lz.dmax - lz.dmin)

(***************************************************************************)
(* The lazy view under indexing (lazy.py).  An ndarray is a shape and a    *)
(* function from index tuples (1-based here) to elements; a scalar has the *)
(* shape <<>>.  An index is an integer, a slice start:stop or an ellipsis, *)
(* alone or as a pair (row, column); Python positions are 0-based and a    *)
(* negative one counts from the end.                                       *)
(***************************************************************************)
IndexTuples(shape) ==
    IF Len(shape) = 0 THEN {<<>>}
    ELSE IF Len(shape) = 1 THEN {<<i>> : i \in 1..shape[1]}
    ELSE {<<i, j>> : i \in 1..shape[1], j \in 1..shape[2]}

NdArray(shape, at) == [shape |-> shape, at |-> at]

IntIx(i) ==
    [t |-> "int", i |-> i, has_start |-> FALSE, start |-> 0,
     has_stop |-> FALSE, stop |-> 0]

SliceIx(has_start, start, has_stop, stop) ==
    [t |-> "slice", i |-> 0, has_start |-> has_start, start |-> start,
     has_stop |-> has_stop, stop |-> stop]

\* slice(None)
FullSlice == SliceIx(FALSE, 0, FALSE, 0)

EllipsisIx ==
    [t |-> "ellipsis", i |-> 0, has_start |-> FALSE, start |-> 0,
     has_stop |-> FALSE, stop |-> 0]

\* slice.indices(n) for step 1: a bound of None is the end of the axis, a
\* negative bound counts from the end, and both are clamped to 0..n
SliceBound(has, b, n, default) ==
    IF ~has THEN default
    ELSE LET c == IF b < 0 THEN b + n ELSE b
         IN IF c < 0 THEN 0 ELSE IF c > n THEN n ELSE c

\* the positions (1-based) one index selects on an axis of length n, and
\* whether the axis stays in the result
AxisSelect(ix, n) ==
    IF ix.t = "int"
    THEN LET pos == IF ix.i < 0 THEN ix.i + n ELSE ix.i
         IN [ok |-> pos >= 0 /\ pos < n, keep |-> FALSE, sel |-> <<pos + 1>>]
    ELSE LET lo == IF ix.t = "slice"
                   THEN SliceBound(ix.has_start, ix.start, n, 0) ELSE 0
             hi == IF ix.t = "slice"
                   THEN SliceBound(ix.has_stop, ix.stop, n, n) ELSE n
         IN [ok |-> TRUE, keep |-> TRUE,
             sel |-> [c \in 1..(IF hi > lo THEN hi - lo ELSE 0) |-> lo + c]]

\* ndarray.__getitem__((row, col)) on a two-dimensional array
Index2(a, row, col) ==
    LET r == AxisSelect(row, a.shape[1])
        c == AxisSelect(col, a.shape[2])
        shape == (IF r.keep THEN <<Len(r.sel)>> ELSE <<>>)
                 \o (IF c.keep THEN <<Len(c.sel)>> ELSE <<>>)
        src(t) == <<IF r.keep THEN r.sel[t[1]] ELSE r.sel[1],
                    IF c.keep THEN c.sel[t[Len(t)]] ELSE c.sel[1]>>
    IN IF row.t = "ellipsis" /\ col.t = "ellipsis"
       THEN [res |-> "IndexError", a |-> NdArray(<<>>, <<>>)]
       ELSE IF ~r.ok \/ ~c.ok
       THEN [res |-> "IndexError", a |-> NdArray(<<>>, <<>>)]
       ELSE [res |-> "ok",
             a |-> NdArray(shape, [t \in IndexTuples(shape) |-> a.at[src(t)]])]

\* ndarray.__getitem__(idx): a lone integer or slice indexes the rows
ndarray_getitem(a, idx) ==
    IF idx.pair THEN Index2(a, idx.row, idx.col)
    ELSE Index2(a, idx.row, FullSlice)

\* numpy broadcasting of two shapes of the model: aligned at the right, an
\* axis of length 1 stretches
BroadcastShape(sa, sb) ==
    LET n == IF Len(sa) > Len(sb) THEN Len(sa) ELSE Len(sb)
        da(k) == IF k > n - Len(sa) THEN sa[k - (n - Len(sa))] ELSE 1
        db(k) == IF k > n - Len(sb) THEN sb[k - (n - Len(sb))] ELSE 1
    IN [k \in 1..n |-> IF da(k) = 1 THEN db(k) ELSE da(k)]

\* the element of an operand that index tuple t of the result reads
BroadcastFrom(a, t) ==
    LET off == Len(t) - Len(a.shape)
    IN a.at[[k \in 1..Len(a.shape) |->
                IF a.shape[k] = 1 THEN 1 ELSE t[k + off]]]

\* a + b and a * b of two arrays
Broadcast(op(_, _), a, b) ==
    LET shape == BroadcastShape(a.shape, b.shape)
    IN NdArray(shape,
               [t \in IndexTuples(shape) |->
                    op(BroadcastFrom(a, t), BroadcastFrom(b, t))])

\* LazySignal.slice_columns_param(idx): the scale and the bias that go
\* with the columns idx selects
slice_columns_param(m, bias, idx) ==
    IF ~idx.pair THEN [m |-> m, bias |-> bias]
    ELSE LET row == IF idx.row.t = "ellipsis" THEN FullSlice ELSE idx.row
             col == IF idx.col.t = "ellipsis" THEN FullSlice ELSE idx.col
         IN IF row.t = "int"
            THEN [m |-> Index2(m, IntIx(0), col).a,
                  bias |-> Index2(bias, IntIx(0), col).a]
            ELSE [m |-> Index2(m, FullSlice, col).a,
                  bias |-> Index2(bias, FullSlice, col).a]

\* LazySignal._transform(data_slice, idx): _m * (data_slice + _bias)
LazySignal_transform(m, bias, data_slice, idx) ==
    LET p == slice_columns_param(m, bias, idx)
    IN Broadcast(FMul, p.m, Broadcast(FAdd, data_slice, p.bias))

\* LazySignal.__getitem__(idx)
LazySignal_getitem(source, m, bias, idx) ==
    LET source_sliced == ndarray_getitem(source, idx)
    IN IF source_sliced.res # "ok" THEN source_sliced
       ELSE [res |-> "ok",
             a |-> LazySignal_transform(m, bias, source_sliced.a, idx)]

\* the source of the view: NRows samples of NCols channels, all codes
\* different (np.arange(...).reshape(NRows, NCols))
NRows == 4

NCols == 3

Source ==
    NdArray(<<NRows, NCols>>,
            [t \in IndexTuples(<<NRows, NCols>>) |->
                FInt(NCols * (t[1] - 1) + (t[2] - 1))])

\* calibrations of a channel: physical and digital bounds
Calibrations ==
    {[pmin |-> -1, pmax |-> 1, dmin |-> 0, dmax |-> 3000],
     [pmin |-> -500, pmax |-> 500, dmin |-> -2048, dmax |-> 2047],
     [pmin |-> 0, pmax |-> 5, dmin |-> -10, dmax |-> 10]}

AxisIndices ==
    {IntIx(0), IntIx(2), IntIx(-1),
     FullSlice, SliceIx(TRUE, 0, TRUE, NRows \div 2),
     SliceIx(TRUE, NRows \div 2, TRUE, NRows),
     SliceIx(TRUE, 1, TRUE, 2), SliceIx(TRUE, -2, FALSE, 0),
     EllipsisIx}

\* the indices a consumer issues: an integer, a slice, or a pair
Indices ==
    [pair : {FALSE}, row : AxisIndices \ {EllipsisIx}, col : {FullSlice}]
    \cup [pair : {TRUE}, row : AxisIndices, col : AxisIndices]

InitView ==
    /\ stores = NoStores
    /\ rkns = NoObj
    /\ last = [op |-> "init", arg |-> <<>>, res |-> "ok", ran |-> FALSE,
               closed |-> FALSE, out |-> <<>>]
    /\ ex = NoExtract
    /\ \E cal \in [1..NCols -> Calibrations] :
          lz = [phase |-> "minmaxs", cal |-> cal]

\* LazySignal.from_minmaxs(source, pmin, pmax, dmin, dmax) with the four
\* bounds of shape (1, NCols)
ViewFromMinmaxs ==
    /\ lz.phase = "minmaxs"
    /\ LET v(j) == from_minmaxs(lz.cal[j].pmin, lz.cal[j].pmax,
                                lz.cal[j].dmin, lz.cal[j].dmax, "float64")
       IN lz' = [phase |-> "view", cal |-> lz.cal,
                 m |-> NdArray(<<1, NCols>>,
                          [t \in IndexTuples(<<1, NCols>>) |-> v(t[2]).m]),
                 bias |-> NdArray(<<1, NCols>>,
                          [t \in IndexTuples(<<1, NCols>>) |-> v(t[2]).bias])]
    /\ UNCHANGED <<stores, rkns, last, ex>>

\* view[idx]
Getitem(idx) ==
    /\ lz.phase = "view"
    /\ LET r == LazySignal_getitem(Source, lz.m, lz.bias, idx)
       IN lz' = [phase |-> "indexed", cal |-> lz.cal, m |-> lz.m,
                 bias |-> lz.bias, idx |-> idx, res |-> r.res, value |-> r.a]
    /\ UNCHANGED <<stores, rkns, last, ex>>

NextView ==
    \/ ViewFromMinmaxs
    \/ \E idx \in Indices : Getitem(idx)

SpecView == InitView /\ [][NextView]_vars

(***************************************************************************)
(* C11. For every index that is an integer, a slice, or a pair of          *)
(* integer, slice or ellipsis, view[idx] has the shape and the values of   *)
(* F[idx], F being the materialized matrix F[i,j] = m[j] * (source[i,j] +  *)
(* bias[j]); in particular view[:] is view[0:S/2] followed by view[S/2:S]  *)
(* and view[:, :] equals view[:].                                          *)
(***************************************************************************)
Materialized(m, bias) == Broadcast(FMul, m, Broadcast(FAdd, Source, bias))

C11_SameValues ==
    (lz.phase = "indexed"
       /\ ndarray_getitem(Materialized(lz.m, lz.bias), lz.idx).res = "ok")
      => /\ lz.res = "ok"
         /\ DOMAIN lz.value.at
              = DOMAIN ndarray_getitem(Materialized(lz.m, lz.bias), lz.idx).a.at
         /\ \A t \in DOMAIN lz.value.at :
              lz.value.at[t]
                = ndarray_getitem(Materialized(lz.m, lz.bias), lz.idx).a.at[t]

C11_SameShape ==
    (lz.phase = "indexed"
       /\ ndarray_getitem(Materialized(lz.m, lz.bias), lz.idx).res = "ok")
      => lz.value.shape
           = ndarray_getitem(Materialized(lz.m, lz.bias), lz.idx).a.shape

C11_IndexingEquivalence ==
    /\ C11_SameShape
    /\ C11_SameValues

(***************************************************************************)
(* C12. On a container that has its /rkns node, get_signal raises          *)
(* ValueError when both or neither of channels and sfreq_Hz are given,     *)
(* KeyError when a requested channel is not a name of channel_info, and    *)
(* ValueError when the requested channels are all known and lie in more    *)
(* than one frequency group; in each of these cases no signal array is     *)
(* read and no store changes.                                              *)
(***************************************************************************)
KnownChannel(st, c) ==
    /\ "channel_info" \in DOMAIN st[RknsPath].attrs
    /\ c \in DOMAIN st[RknsPath].attrs.channel_info

GroupsOfChannels(st, channels) ==
    {st[RknsPath].attrs.channel_info[channels[i]].frequency_group :
        i \in DOMAIN channels}

BadSelectors(a) == a.has_channels = a.has_sfreq

UnknownChannel(st, a) ==
    /\ a.has_channels /\ ~a.has_sfreq
    /\ \E i \in DOMAIN a.channels : ~KnownChannel(st, a.channels[i])

MixedGroups(st, a) ==
    /\ a.has_channels /\ ~a.has_sfreq
    /\ \A i \in DOMAIN a.channels : KnownChannel(st, a.channels[i])
    /\ Cardinality(GroupsOfChannels(st, a.channels)) > 1

C12_GetSignalErrors ==
    [][(/\ last'.op = "get_signal"
        /\ last'.ran
        /\ RknsPath \in DOMAIN stores[rkns.handler])
          => LET st == stores[rkns.handler]
                 a  == last'.arg
             IN /\ BadSelectors(a) => last'.res = "ValueError"
                /\ UnknownChannel(st, a) => last'.res = "KeyError"
                /\ MixedGroups(st, a) => last'.res = "ValueError"
                /\ (BadSelectors(a) \/ UnknownChannel(st, a) \/ MixedGroups(st, a))
                      => /\ last'.out.reads = {}
                         /\ stores' = stores]_vars

C12_Witness ==
    /\ last.op = "get_signal"
    /\ last.ran
    /\ RknsPath \in DOMAIN stores[rkns.handler]
    /\ MixedGroups(stores[rkns.handler], last.arg)
    /\ last.res = "ValueError"
    /\ last.out.reads = {}

(***************************************************************************)
(* C13. from_file asks the registered detectors in registration order and  *)
(* takes the first answer other than UNKNOWN, asking no detector after it; *)
(* when every detector answers UNKNOWN the format is UNKNOWN, from_file    *)
(* raises NotImplementedError and no node is created in the target store.  *)
(***************************************************************************)
\* the places in the registration order whose detector recognises path
Recognising(path) ==
    {k \in DOMAIN Detectors :
        detector_fn(Detectors[k], path) # FileFormat_UNKNOWN}

FirstRecognising(path) ==
    CHOOSE k \in Recognising(path) : \A j \in Recognising(path) : k <= j

C13_DetectionOrder ==
    [][last'.op = "from_file" =>
         LET path == last'.arg.file_path
             tgt  == last'.arg.target_store
         IN IF Recognising(path) # {}
            THEN /\ last'.out.invoked
                      = SubSeq(Detectors, 1, FirstRecognising(path))
                 /\ last'.out.format
                      = detector_fn(Detectors[FirstRecognising(path)], path)
            ELSE /\ last'.out.invoked = Detectors
                 /\ last'.out.format = FileFormat_UNKNOWN
                 /\ last'.res = "NotImplementedError"
                 /\ rkns' = NoObj
                 /\ stores'[tgt] = IF tgt = "mem" THEN EmptyStore
                                   ELSE stores[tgt]]_vars

C13_Witness ==
    /\ last.op = "from_file"
    /\ last.arg.file_path = "rec1.edf"
    /\ last.out.invoked = <<"edf_detector">>
    /\ last.out.format = FileFormat_EDF

C13_WitnessUnknown ==
    /\ last.op = "from_file"
    /\ last.arg.file_path = "notes.txt"
    /\ last.arg.target_store = "s1"
    /\ stores["s1"] # EmptyStore
    /\ last.res = "NotImplementedError"

ExportsNormalizedToFresh ==
    /\ last'.op = "export"
    /\ last'.ran
    /\ last'.arg \notin ArchiveIds
    /\ last'.arg # rkns.handler
    /\ stores[last'.arg] = EmptyStore
    /\ RawPopulated(stores[rkns.handler])
    /\ HasFrequencyGroups(stores[rkns.handler])

C15_ExportCopies ==
    [][ExportsNormalizedToFresh =>
          /\ last'.res = "ok"
          /\ stores'[rkns.handler] = stores[rkns.handler]
          /\ stores'[last'.arg] = stores[rkns.handler]
          /\ deep_compare(stores'[last'.arg], FALSE, stores'[rkns.handler])
                = "ok"]_vars

C15_ExportRoundTrip ==
    [][ExportsNormalizedToFresh =>
          /\ last'.res = "ok"
          /\ stores'[rkns.handler] = stores[rkns.handler]
          /\ stores'[last'.arg] = stores[rkns.handler]
          /\ from_existing_rkns_store(stores'[last'.arg], TRUE) = "ok"
          /\ deep_compare(stores'[last'.arg], FALSE, stores'[rkns.handler])
                = "ok"]_vars

C15_Reached ==
    /\ last.op = "export"
    /\ last.res = "ok"
    /\ last.arg # rkns.handler
    /\ HasFrequencyGroups(stores[last.arg])

\* ---------------------------------------------------------------------
\* deep_compare_groups on pairs of small trees
\* ---------------------------------------------------------------------

\* the attribute dictionaries of the trees
AttrChoices == {[u |-> 1], [u |-> 2], [v |-> 1]}

\* the arrays a tree may hold at one path: two shapes, values that differ,
\* and values that differ within the tolerance of np.allclose
ArrayChoices ==
    {ArrayNode(<<2>>, <<1, 2>>, [u |-> 1]),
     ArrayNode(<<2>>, <<1, 3>>, [u |-> 1]),
     ArrayNode(<<2>>, <<1, 2>>, [u |-> 2]),
     ArrayNode(<<2>>, <<1, 2>>, [v |-> 1]),
     ArrayNode(<<3>>, <<1, 2, 3>>, [u |-> 1]),
     ArrayNode(<<2>>, <<1, 200000>>, [u |-> 1]),
     ArrayNode(<<2>>, <<1, 200001>>, [u |-> 1])}

\* what a tree may hold at "a": an array or a group
AChoices == ArrayChoices \cup {GroupNode([u |-> 1])}

\* what a tree may hold at "g": nothing, an empty group, or a group with
\* one array "g/a"
GChoices ==
    {EmptyStore,
     (<<"g">> :> GroupNode([u |-> 1])),
     (<<"g">> :> GroupNode([u |-> 1]))
        @@ (<<"g", "a">> :> ArrayNode(<<2>>, <<1, 2>>, [u |-> 1])),
     (<<"g">> :> GroupNode([u |-> 1]))
        @@ (<<"g", "a">> :> ArrayNode(<<2>>, <<1, 3>>, [u |-> 1]))}

\* what a tree may hold at "b": nothing or an array
BChoices == {EmptyStore, (<<"b">> :> ArrayNode(<<2>>, <<1, 2>>, [u |-> 1]))}

\* zarr.group(store)[name] with its root attributes and members
Tree(name, attrs, a, b, g) ==
    [name  |-> name,
     nodes |-> (RootPath :> GroupNode(attrs)) @@ (<<"a">> :> a) @@ b @@ g]

Trees1 ==
    {Tree("/group1", [u |-> 1], a, b, g) :
        a \in AChoices, b \in BChoices, g \in GChoices}

Trees2 ==
    {Tree(name, attrs, a, b, g) :
        name \in {"/group1", "/group2"}, attrs \in {[u |-> 1], [u |-> 2]},
        a \in AChoices, b \in BChoices, g \in GChoices}

DepthChoices == {NoMaxDepth, MaxDepth(0), MaxDepth(1)}

InitCompare ==
    /\ stores = NoStores
    /\ rkns = NoObj
    /\ last = [op |-> "init", arg |-> <<>>, res |-> "ok", ran |-> FALSE,
               closed |-> FALSE, out |-> <<>>]
    /\ lz = NoLazy
    /\ \E group1 \in Trees1, group2 \in Trees2 :
          ex = [phase |-> "groups", group1 |-> group1, group2 |-> group2]

\* deep_compare_groups(group1, group2, max_depth, compare_values,
\* compare_attributes)
DeepCompareGroups(max_depth, compare_values, compare_attributes) ==
    /\ ex.phase = "groups"
    /\ ex' = [phase |-> "compared", group1 |-> ex.group1,
              group2 |-> ex.group2, max_depth |-> max_depth,
              compare_values |-> compare_values,
              compare_attributes |-> compare_attributes,
              res |-> deep_compare_groups(ex.group1, ex.group2, max_depth,
                                          compare_values, compare_attributes)]
    /\ UNCHANGED <<stores, rkns, last, lz>>

NextCompare ==
    \E max_depth \in DepthChoices, compare_values \in BOOLEAN,
       compare_attributes \in BOOLEAN :
        DeepCompareGroups(max_depth, compare_values, compare_attributes)

SpecCompare == InitCompare /\ [][NextCompare]_vars

\* the sorted member keys of the two trees of a finished comparison
Keys1 == SortedKeys(members(ex.group1.nodes, ex.max_depth))

Keys2 == SortedKeys(members(ex.group2.nodes, ex.max_depth))

\* the first check that fails on the i-th pair of members, "none" if all
\* of them pass
NodeFailure(i) ==
    LET node1 == ex.group1.nodes[Keys1[i]]
        node2 == ex.group2.nodes[Keys2[i]]
    IN IF Keys1[i] # Keys2[i] THEN "PathMismatchError"
       ELSE IF node1.kind # node2.kind THEN "GroupComparisonError"
       ELSE IF node1.kind = "array" /\ node1.shape # node2.shape
       THEN "ArrayShapeMismatchError"
       ELSE IF node1.kind = "array" /\ ex.compare_values
               /\ ~allclose_arrays(node1, node2)
       THEN "ArrayValueMismatchError"
       ELSE IF ex.compare_attributes /\ node1.attrs # node2.attrs
       THEN "AttributeMismatchError"
       ELSE "none"

\* the two trees agree on everything the comparison was asked to look at
TreesAgree ==
    LET nodes1 == ex.group1.nodes
        nodes2 == ex.group2.nodes
        paths1 == members(nodes1, ex.max_depth)
        paths2 == members(nodes2, ex.max_depth)
    IN /\ ex.group1.name = ex.group2.name
       /\ paths1 = paths2
       /\ ex.compare_attributes =>
             nodes1[RootPath].attrs = nodes2[RootPath].attrs
       /\ \A p \in paths1 \cap paths2 :
             /\ nodes1[p].kind = nodes2[p].kind
             /\ nodes1[p].kind = "array" =>
                   /\ nodes1[p].shape = nodes2[p].shape
                   /\ ex.compare_values =>
                         allclose_arrays(nodes1[p], nodes2[p])
             /\ ex.compare_attributes => nodes1[p].attrs = nodes2[p].attrs

\* the error of the first failing check, in the order name, member count,
\* root attributes, then member by member
FirstFailure ==
    IF ex.group1.name # ex.group2.name THEN "NameMismatchError"
    ELSE IF Len(Keys1) # Len(Keys2) THEN "MemberCountMismatchError"
    ELSE IF ex.compare_attributes
            /\ ex.group1.nodes[RootPath].attrs
                  # ex.group2.nodes[RootPath].attrs
    THEN "AttributeMismatchError"
    ELSE LET failing == {i \in 1..Len(Keys1) : NodeFailure(i) # "none"}
         IN IF failing = {} THEN "none"
            ELSE NodeFailure(CHOOSE i \in failing :
                                \A j \in failing : i <= j)

\* C16: deep_compare_groups returns True exactly when the two trees agree
\* on root name, member paths up to max_depth, node kinds, array shapes,
\* array values (np.allclose) when compare_values is set and attributes
\* (root included) when compare_attributes is set; otherwise it raises the
\* typed error of the first failing check and never returns False.
C16_DeepCompare ==
    ex.phase = "compared" =>
        /\ ex.res = "ok" <=> TreesAgree
        /\ ex.res # "ok" => ex.res = FirstFailure
        /\ ex.res \in {"ok", "NameMismatchError", "MemberCountMismatchError",
                       "AttributeMismatchError", "PathMismatchError",
                       "GroupComparisonError", "ArrayShapeMismatchError",
                       "ArrayValueMismatchError"}

\* two trees that differ in a value and in an attribute of one array are
\* compared with both checks on: the value error is raised
C16_Witness ==
    /\ ex.phase = "compared"
    /\ ex.compare_values /\ ex.compare_attributes
    /\ ex.group1.name = ex.group2.name
    /\ DOMAIN ex.group1.nodes = DOMAIN ex.group2.nodes
    /\ ex.group1.nodes[<<"a">>].kind = "array"
    /\ ex.group2.nodes[<<"a">>].kind = "array"
    /\ ex.group1.nodes[<<"a">>].shape = ex.group2.nodes[<<"a">>].shape
    /\ ex.group1.nodes[<<"a">>].data = <<1, 2>>
    /\ ex.group2.nodes[<<"a">>].data = <<1, 3>>
    /\ ex.res = "ArrayValueMismatchError"

\* the same trees up to the children, compared to depth 0 only: True
C16_WitnessDepth ==
    /\ ex.phase = "compared"
    /\ ex.max_depth = MaxDepth(0)
    /\ <<"g", "a">> \in DOMAIN ex.group1.nodes
    /\ <<"g", "a">> \in DOMAIN ex.group2.nodes
    /\ ex.group1.nodes[<<"g", "a">>] # ex.group2.nodes[<<"g", "a">>]
    /\ ex.res = "ok"

\* ---------------------------------------------------------------------
\* check_validity on a normalized container and on its corruptions
\* ---------------------------------------------------------------------

\* the container the steps of from_file(populate_from_raw=True) write for
\* file f: the raw zone, then populate_rkns_from_raw
NormalizedStore(f) == populate_rkns_from_raw(RawOnlyStore(f), FALSE, TRUE).store

\* del node.attrs[name]
remove_attr(st, p, name) ==
    [st EXCEPT ![p].attrs = [k \in (DOMAIN @) \ {name} |-> @[k]]]

\* the node at p moves, with all below it, to the name new_name
rename_node(st, p, new_name) ==
    LET q == Append(SubSeq(p, 1, Len(p) - 1), new_name)
        moved(r) == q \o SubSeq(r, Len(p) + 1, Len(r))
        below == {r \in DOMAIN st : IsPrefix(p, r)}
    IN [r \in (DOMAIN st \ below) \cup {moved(x) : x \in below} |->
           IF r \in DOMAIN st \ below THEN st[r]
           ELSE st[CHOOSE x \in below : moved(x) = r]]

\* the frequency groups of a container, wherever they were written
FrequencyGroupPaths(st) ==
    {p \in DOMAIN st :
        /\ p # RootPath
        /\ st[p].kind = "group"
        /\ HasFgPrefix(p[Len(p)])}

NoCorruption == [element |-> "none", at |-> RootPath, name |-> ""]

\* the required elements of a container, each one removable on its own
Corruptions(st) ==
    {[element |-> "root_attribute", at |-> RootPath, name |-> a] :
        a \in {"rkns_header", "creation_time"}}
    \cup {[element |-> "node", at |-> <<n>>, name |-> n] :
            n \in {raw_root, rkns_root, history, popis}}
    \cup {[element |-> "raw_blob", at |-> RawSignalPath, name |-> raw_signal]}
    \cup {[element |-> "raw_attribute", at |-> RawSignalPath, name |-> a] :
            a \in {"filename", "format", "modification_time", "md5"}}
    \cup {[element |-> "fg_prefix", at |-> p, name |-> "g"] :
            p \in FrequencyGroupPaths(st)}
    \cup {[element |-> "fg_child", at |-> p, name |-> n] :
            p \in FrequencyGroupPaths(st),
            n \in {rkns_signal, rkns_signal_minmaxs}}

corrupt(st, c) ==
    CASE c.element \in {"root_attribute", "raw_attribute"} ->
            remove_attr(st, c.at, c.name)
      [] c.element \in {"node", "raw_blob"} -> delete_dir(st, c.at)
      [] c.element = "fg_prefix" -> rename_node(st, c.at, c.name)
      [] c.element = "fg_child" -> delete_dir(st, Append(c.at, c.name))

InitValid ==
    /\ stores = NoStores
    /\ rkns = NoObj
    /\ last = [op |-> "init", arg |-> <<>>, res |-> "ok", ran |-> FALSE,
               closed |-> FALSE, out |-> <<>>]
    /\ lz = NoLazy
    /\ \E f \in EdfFiles :
          ex = [phase |-> "built", file |-> f, store |-> NormalizedStore(f),
                corruption |-> NoCorruption]

\* one required element is removed or renamed
Corrupt(c) ==
    /\ ex.phase = "built"
    /\ ex.corruption = NoCorruption
    /\ c \in Corruptions(ex.store)
    /\ ex' = [ex EXCEPT !.store = corrupt(ex.store, c), !.corruption = c]
    /\ UNCHANGED <<stores, rkns, last, lz>>

Checked(fn, res) ==
    [phase |-> "checked", file |-> ex.file, store |-> ex.store,
     corruption |-> ex.corruption, fn |-> fn, res |-> res]

\* check_validity(handler.root)
CheckValidity ==
    /\ ex.phase = "built"
    /\ ex' = Checked("check_validity", check_validity(ex.store))
    /\ UNCHANGED <<stores, rkns, last, lz>>

\* check_rkns_validity(handler.rkns)
CheckRknsValidity ==
    /\ ex.phase = "built"
    /\ ex' = Checked("check_rkns_validity",
                     IF RknsPath \notin DOMAIN ex.store
                     THEN "RuntimeError_NoNode"
                     ELSE check_rkns_validity(ex.store))
    /\ UNCHANGED <<stores, rkns, last, lz>>

\* check_raw_validity(handler.raw)
CheckRawValidity ==
    /\ ex.phase = "built"
    /\ ex' = Checked("check_raw_validity",
                     IF RawPath \notin DOMAIN ex.store
                     THEN "RuntimeError_NoNode"
                     ELSE check_raw_validity(ex.store))
    /\ UNCHANGED <<stores, rkns, last, lz>>

NextValid ==
    \/ \E f \in EdfFiles : \E c \in Corruptions(NormalizedStore(f)) : Corrupt(c)
    \/ CheckValidity
    \/ CheckRknsValidity
    \/ CheckRawValidity

SpecValid == InitValid /\ [][NextValid]_vars

\* the error check_validity is to raise for a corrupted element
ExpectedError(c) ==
    CASE c.element = "root_attribute" -> "ValueError_MissingRootAttribute"
      [] c.element \in {"node", "raw_blob"} -> "ValueError_MissingGroup"
      [] c.element = "raw_attribute" -> "ValueError_MissingRawAttribute"
      [] c.element = "fg_prefix" -> "ValueError_Prefix"
      [] c.element = "fg_child" -> "ValueError_MissingArray"

\* C17: check_validity accepts the container from_file writes with
\* populate_from_raw = true, and raises the error of the element when one
\* required element (root attribute, top node, raw blob, one of its four
\* attributes, the fg_ prefix, a signal or signal_minmaxs child) is removed.
C17_Validity ==
    (ex.phase = "checked" /\ ex.fn = "check_validity") =>
        IF ex.corruption = NoCorruption THEN ex.res = "ok"
        ELSE ex.res = ExpectedError(ex.corruption)

\* the part of C17 about the untouched container alone
C17_AcceptsNormalized ==
    (ex.phase = "checked" /\ ex.fn = "check_validity"
        /\ ex.corruption = NoCorruption) => ex.res = "ok"

\* the part of C17 about corruptions, asking for any error at all
C17_RejectsCorrupted ==
    (ex.phase = "checked" /\ ex.fn = "check_validity"
        /\ ex.corruption # NoCorruption) => ex.res # "ok"

\* the part of C17 about the frequency groups: the two checks of the
\* normalized zone see the corruption
C17_FrequencyGroupsChecked ==
    (ex.phase = "checked" /\ ex.fn = "check_rkns_validity"
        /\ ex.corruption.element \in {"fg_prefix", "fg_child"})
        => ex.res = ExpectedError(ex.corruption)

\* ---------------------------------------------------------------------
\* The store handlers of the two zarr versions: opening, the accessors
\* root, raw and rkns, and writes through the handles they return
\* ---------------------------------------------------------------------

\* zarr.__version__.startswith("2.") picks StoreHandlerZarrV2, anything
\* else StoreHandlerZarrV3
ZarrVersions == {"v2", "v3"}

\* the mode the root property opens the root group with
root_mode(zarr) == IF zarr = "v2" THEN "a" ELSE "r+"

\* the mode the raw property opens /_raw with
raw_mode(zarr) == IF zarr = "v2" THEN "a" ELSE "r"

\* the mode the rkns property opens /rkns with
rkns_mode(zarr) == IF zarr = "v2" THEN "a" ELSE "r+"

\* zarr.open_group(store, path=path, mode=mode): "r" and "r+" need the
\* group to exist, "a" creates it (and its parents) when it does not
open_group(st, path, mode) ==
    IF path \in DOMAIN st
    THEN [store |-> st, res |-> "ok"]
    ELSE IF mode = "a"
    THEN [store |-> create_hierarchy(st, {path}), res |-> "ok"]
    ELSE [store |-> st, res |-> "FileNotFoundError"]

\* a handle opened with mode "r" refuses every write
ReadOnly(mode) == mode = "r"

\* a property of the handler: the cached group, or open_group with the
\* FileNotFoundError turned into RuntimeError
accessor(st, cached, path, mode) ==
    IF cached THEN [store |-> st, res |-> "ok"]
    ELSE LET r == open_group(st, path, mode)
         IN IF r.res = "FileNotFoundError"
            THEN [store |-> st, res |-> "RuntimeError_NoNode"]
            ELSE r

\* RKNSBuilder.from_existing_rkns_store(store, validate) with the handler
\* of one zarr version: the store afterwards, the outcome, and whether
\* the UserWarning about the implementation was issued
open_existing(zarr, st, validate) ==
    LET root == accessor(st, FALSE, RootPath, root_mode(zarr))
    IN IF root.res # "ok"
       THEN [store |-> st, res |-> root.res, warned |-> FALSE]
       ELSE
       LET attrs  == root.store[RootPath].attrs
           res    == from_existing_rkns_store(root.store, validate)
           warned ==
               /\ "rkns_header" \in DOMAIN attrs
               /\ "rkns_version" \in DOMAIN attrs.rkns_header
               /\ attrs.rkns_header.rkns_version = CurrentVersion
               /\ \/ "rkns_implementation" \notin DOMAIN attrs.rkns_header
                  \/ attrs.rkns_header.rkns_implementation
                        # make_rkns_header.rkns_implementation
           raw    == accessor(root.store, FALSE, RawPath, raw_mode(zarr))
       IN IF res = "RuntimeError_NoNode" /\ raw.res = "ok"
          THEN [store |-> raw.store, res |-> "KeyError", warned |-> warned]
          ELSE [store |-> root.store, res |-> res, warned |-> warned]

\* the headers a store may have been written with
HeaderChoices ==
    {make_rkns_header,
     [rkns_version |-> "0.0.9", rkns_implementation |-> "python"],
     [rkns_version |-> CurrentVersion, rkns_implementation |-> "matlab"]}

\* the stores the handlers are opened on: an empty one, and containers
\* with one of the headers or without rkns_header
OpenStores ==
    LET bases == {RawOnlyStore(f) : f \in EdfFiles}
                 \cup {NormalizedStore(f) : f \in EdfFiles}
    IN {EmptyStore}
       \cup {update_attrs(b, RootPath, [rkns_header |-> h]) :
                b \in bases, h \in HeaderChoices}
       \cup {remove_attr(b, RootPath, "rkns_header") : b \in bases}

\* how many writes a behaviour makes
MaxWrites == 2

WriteKinds == {"attribute", "child", "array_data"}

\* the array a write of array data goes to
write_target(st, via) ==
    IF via = "raw" THEN {RawSignalPath}
    ELSE {Append(p, rkns_signal) : p \in
             {q \in FrequencyGroupPaths(st) :
                 IsPrefix(RknsPath, q)
                 /\ Append(q, rkns_signal) \in DOMAIN st}}

\* a write through a group handle at path zone
write(st, zone, kind) ==
    CASE kind = "attribute" ->
            [store |-> update_attrs(st, zone, [note |-> 1]), res |-> "ok"]
      [] kind = "child" ->
            IF Append(zone, "x") \in DOMAIN st
            THEN [store |-> st, res |-> "ContainsGroupError"]
            ELSE [store |-> create_group(st, Append(zone, "x")), res |-> "ok"]
      [] kind = "array_data" ->
            LET targets == write_target(st, zone[1])
            IN IF targets = {} \/ targets \cap DOMAIN st = {}
               THEN [store |-> st, res |-> "KeyError"]
               ELSE LET t == CHOOSE x \in targets : x \in DOMAIN st
                    IN [store |-> IF Len(st[t].shape) = 1
                                  THEN [st EXCEPT ![t].data[1] = 0]
                                  ELSE [st EXCEPT ![t].data[1][1] = 0],
                        res |-> "ok"]

\* handler.raw / handler.rkns, then a write through the handle
write_via(zarr, st, cached, via, kind) ==
    LET zone == IF via = "raw" THEN RawPath ELSE RknsPath
        mode == IF via = "raw" THEN raw_mode(zarr) ELSE rkns_mode(zarr)
        h    == accessor(st, cached, zone, mode)
    IN IF h.res # "ok" THEN h
       ELSE IF ReadOnly(mode) THEN [store |-> h.store, res |-> "ReadOnlyError"]
       ELSE write(h.store, zone, kind)

InitOpen ==
    /\ \E st \in OpenStores : stores = [NoStores EXCEPT !["s1"] = st]
    /\ rkns = NoObj
    /\ last = [op |-> "init", arg |-> <<>>, res |-> "ok", ran |-> FALSE,
               closed |-> FALSE, out |-> <<>>]
    /\ lz = NoLazy
    /\ \E zarr \in ZarrVersions :
          ex = [phase |-> "handler", zarr |-> zarr, root |-> FALSE,
                raw |-> FALSE, rkns |-> FALSE, writes |-> 0,
                op |-> "init", via |-> "", kind |-> "", validate |-> FALSE,
                res |-> "ok", warned |-> FALSE]

\* handler.root
HandlerRoot ==
    /\ ex.phase = "handler"
    /\ LET r == accessor(stores["s1"], ex.root, RootPath, root_mode(ex.zarr))
       IN /\ stores' = [stores EXCEPT !["s1"] = r.store]
          /\ ex' = [ex EXCEPT !.root = (r.res = "ok"), !.op = "root",
                              !.via = "", !.kind = "", !.res = r.res,
                              !.warned = FALSE, !.validate = FALSE]
    /\ UNCHANGED <<rkns, last, lz>>

\* handler.raw
HandlerRaw ==
    /\ ex.phase = "handler"
    /\ LET r == accessor(stores["s1"], ex.raw, RawPath, raw_mode(ex.zarr))
       IN /\ stores' = [stores EXCEPT !["s1"] = r.store]
          /\ ex' = [ex EXCEPT !.raw = (r.res = "ok"), !.op = "raw",
                              !.via = "", !.kind = "", !.res = r.res,
                              !.warned = FALSE, !.validate = FALSE]
    /\ UNCHANGED <<rkns, last, lz>>

\* handler.rkns
HandlerRkns ==
    /\ ex.phase = "handler"
    /\ LET r == accessor(stores["s1"], ex.rkns, RknsPath, rkns_mode(ex.zarr))
       IN /\ stores' = [stores EXCEPT !["s1"] = r.store]
          /\ ex' = [ex EXCEPT !.rkns = (r.res = "ok"), !.op = "rkns",
                              !.via = "", !.kind = "", !.res = r.res,
                              !.warned = FALSE, !.validate = FALSE]
    /\ UNCHANGED <<rkns, last, lz>>

\* RKNSBuilder().from_existing_rkns_store(store, validate), which makes a
\* handler of its own for the store
OpenExisting(validate) ==
    /\ ex.phase = "handler"
    /\ LET r == open_existing(ex.zarr, stores["s1"], validate)
       IN /\ stores' = [stores EXCEPT !["s1"] = r.store]
          /\ ex' = [ex EXCEPT !.op = "from_existing_rkns_store",
                              !.via = "", !.kind = "", !.res = r.res,
                              !.warned = r.warned, !.validate = validate]
    /\ UNCHANGED <<rkns, last, lz>>

\* a write through handler.raw or handler.rkns
Write(via, kind) ==
    /\ ex.phase = "handler"
    /\ ex.writes < MaxWrites
    /\ LET cached == IF via = "raw" THEN ex.raw ELSE ex.rkns
           r == write_via(ex.zarr, stores["s1"], cached, via, kind)
           opened == r.res \notin {"RuntimeError_NoNode"}
       IN /\ stores' = [stores EXCEPT !["s1"] = r.store]
          /\ ex' = [ex EXCEPT !.raw = IF via = "raw" THEN opened ELSE @,
                              !.rkns = IF via = "rkns" THEN opened ELSE @,
                              !.writes = @ + 1, !.op = "write", !.via = via,
                              !.kind = kind, !.res = r.res,
                              !.warned = FALSE, !.validate = FALSE]
    /\ UNCHANGED <<rkns, last, lz>>

NextOpen ==
    \/ HandlerRoot
    \/ HandlerRaw
    \/ HandlerRkns
    \/ \E validate \in BOOLEAN : OpenExisting(validate)
    \/ \E via \in {"raw", "rkns"}, kind \in WriteKinds : Write(via, kind)

SpecOpen == InitOpen /\ [][NextOpen]_vars

\* the nodes of the raw zone
RawZone(st) == Restrict(st, {p \in DOMAIN st : IsPrefix(RawPath, p)})

\* C18: opening a store without a root node, or reading the root accessor
\* on it, fails with the not-found error and leaves the store as it was,
\* with the handler of either zarr version.
C18_OpenWithoutRoot ==
    [][(RootPath \notin DOMAIN stores["s1"]
          /\ ex'.op \in {"root", "from_existing_rkns_store"})
        => (ex'.res = "RuntimeError_NoNode" /\ stores' = stores)]_vars

\* C18 for the zarr-v3 handler alone
C18_OpenWithoutRootV3 ==
    [][(RootPath \notin DOMAIN stores["s1"] /\ ex.zarr = "v3"
          /\ ex'.op \in {"root", "from_existing_rkns_store"})
        => (ex'.res = "RuntimeError_NoNode" /\ stores' = stores)]_vars

\* the zarr-v3 handler has refused to open a store without a root
C18_WitnessV3 ==
    /\ ex.phase = "handler" /\ ex.zarr = "v3"
    /\ ex.op = "from_existing_rkns_store"
    /\ ex.res = "RuntimeError_NoNode"
    /\ stores["s1"] = EmptyStore

\* the write of one kind can be made in the normalized zone of st
WritePossible(st, kind) ==
    /\ kind = "array_data" => write_target(st, "rkns") # {}
    /\ kind = "child" => Append(RknsPath, "x") \notin DOMAIN st

\* the write of one kind is there in the normalized zone of st
WriteVisible(st, kind) ==
    CASE kind = "attribute" ->
            /\ "note" \in DOMAIN st[RknsPath].attrs
            /\ st[RknsPath].attrs.note = 1
      [] kind = "child" -> Append(RknsPath, "x") \in DOMAIN st
      [] kind = "array_data" ->
            \E t \in write_target(st, "rkns") : st[t].data[1][1] = 0

\* a write through rkns() has been made by the zarr-v3 handler after a
\* write through raw() was refused
C19_WitnessV3 ==
    /\ ex.phase = "handler" /\ ex.zarr = "v3"
    /\ ex.op = "write" /\ ex.via = "rkns" /\ ex.kind = "array_data"
    /\ ex.res = "ok"
    /\ WriteVisible(stores["s1"], "array_data")
    /\ ex.raw

\* C19: a write through raw() is rejected and leaves the raw zone as it
\* was, the same write through rkns() succeeds, with the handler of
\* either zarr version.
C19_RawReadOnly ==
    [][(ex'.op = "write" /\ RawPath \in DOMAIN stores["s1"]
          /\ RknsPath \in DOMAIN stores["s1"])
        => IF ex'.via = "raw"
           THEN /\ ex'.res # "ok"
                /\ RawZone(stores'["s1"]) = RawZone(stores["s1"])
           ELSE WritePossible(stores["s1"], ex'.kind)
                => /\ ex'.res = "ok"
                   /\ WriteVisible(stores'["s1"], ex'.kind)]_vars

\* C19 for the zarr-v3 handler alone
C19_RawReadOnlyV3 ==
    [][(ex'.op = "write" /\ ex.zarr = "v3"
          /\ RawPath \in DOMAIN stores["s1"]
          /\ RknsPath \in DOMAIN stores["s1"])
        => IF ex'.via = "raw"
           THEN /\ ex'.res = "ReadOnlyError"
                /\ stores' = stores
           ELSE WritePossible(stores["s1"], ex'.kind)
                => /\ ex'.res = "ok"
                   /\ WriteVisible(stores'["s1"], ex'.kind)]_vars

\* the rkns_header of the store, before it is opened
HeaderOf(st) ==
    IF RootPath \in DOMAIN st /\ "rkns_header" \in DOMAIN st[RootPath].attrs
    THEN st[RootPath].attrs.rkns_header
    ELSE [absent |-> TRUE]

\* C20: opening an existing store is rejected with the parse error when
\* it has no rkns_header and with ValueError when its rkns_version is not
\* the current one; with the current version it opens, with a warning
\* when rkns_implementation differs and silently when it does not.
C20_HeaderOutcomes ==
    [][(ex'.op = "from_existing_rkns_store" /\ ~ex'.validate
          /\ RootPath \in DOMAIN stores["s1"])
        => LET h == HeaderOf(stores["s1"])
           IN IF "absent" \in DOMAIN h THEN ex'.res = "RKNSParseError"
              ELSE IF h.rkns_version # CurrentVersion
              THEN ex'.res = "ValueError"
              ELSE IF h.rkns_implementation
                         # make_rkns_header.rkns_implementation
              THEN ex'.res = "ok" /\ ex'.warned
              ELSE ex'.res = "ok" /\ ~ex'.warned]_vars

\* C20 without the case of a differing version
C20_HeaderOutcomesSameVersion ==
    [][(ex'.op = "from_existing_rkns_store" /\ ~ex'.validate
          /\ RootPath \in DOMAIN stores["s1"])
        => LET h == HeaderOf(stores["s1"])
           IN IF "absent" \in DOMAIN h THEN ex'.res = "RKNSParseError"
              ELSE IF h.rkns_version # CurrentVersion
              THEN ex'.res # "ok" /\ ~ex'.warned
              ELSE IF h.rkns_implementation
                         # make_rkns_header.rkns_implementation
              THEN ex'.res = "ok" /\ ex'.warned
              ELSE ex'.res = "ok" /\ ~ex'.warned]_vars

\* a store of another implementation has been opened with the warning
C20_WitnessWarned ==
    /\ ex.phase = "handler"
    /\ ex.op = "from_existing_rkns_store"
    /\ ex.res = "ok" /\ ex.warned

\* ---------------------------------------------------------------------
\* export_to_path_or_store and the destination stores it opens and closes
\* ---------------------------------------------------------------------

\* what export is handed: a store object of the caller, or a path, free
\* or taken, with or without the suffix .zip
Destinations ==
    {[given |-> "store", zip |-> FALSE, exists |-> FALSE]}
    \cup {[given |-> "path", zip |-> z, exists |-> e] :
             z \in BOOLEAN, e \in BOOLEAN}

\* get_or_create_target_store(path_or_store): the class of the store it
\* returns, and whether it made that store itself
get_or_create_target_store(zarr, dest) ==
    IF dest.given = "store"
    THEN [res |-> "ok", class |-> "Store", made |-> FALSE]
    ELSE IF dest.exists
    THEN [res |-> "FileExistsError", class |-> "none", made |-> FALSE]
    ELSE IF dest.zip
    THEN [res |-> "ok", class |-> "ZipStore", made |-> TRUE]
    ELSE [res |-> "ok",
          class |-> IF zarr = "v2" THEN "DirectoryStore" ELSE "LocalStore",
          made |-> TRUE]

\* export_to_path_or_store of the handler of one zarr version over the
\* source st: the outcome, whether the destination store was made (opened)
\* by the call, and whether close() was called on it
export_run(zarr, st, dest) ==
    LET t == get_or_create_target_store(zarr, dest)
        root == accessor(st, FALSE, RootPath, root_mode(zarr))
    IN IF t.res # "ok"
       THEN [res |-> t.res, opened |-> FALSE, closed |-> FALSE]
       ELSE IF t.class = "ZipStore"
       THEN [res |-> "NotImplementedError", opened |-> t.made,
             closed |-> FALSE]
       ELSE [res |-> root.res, opened |-> t.made,
             closed |-> IF zarr = "v2" THEN t.class = "ZipStore" ELSE TRUE]

InitExport ==
    /\ \E st \in OpenStores : stores = [NoStores EXCEPT !["s1"] = st]
    /\ rkns = NoObj
    /\ last = [op |-> "init", arg |-> <<>>, res |-> "ok", ran |-> FALSE,
               closed |-> FALSE, out |-> <<>>]
    /\ lz = NoLazy
    /\ \E zarr \in ZarrVersions : ex = [phase |-> "export", zarr |-> zarr]

\* handler.export_to_path_or_store(dest)
ExportTo(dest) ==
    /\ ex.phase = "export"
    /\ LET r == export_run(ex.zarr, stores["s1"], dest)
       IN ex' = [phase |-> "exported", zarr |-> ex.zarr, dest |-> dest,
                 res |-> r.res, opened |-> r.opened, closed |-> r.closed]
    /\ UNCHANGED <<stores, rkns, last, lz>>

NextExport == \E dest \in Destinations : ExportTo(dest)

SpecExport == InitExport /\ [][NextExport]_vars

\* C21: every destination store export opens is closed when export returns
\* or raises: after a copy, after a failed copy, and after the rejection of
\* an archive destination.
C21_DestinationClosed ==
    (ex.phase = "exported" /\ ex.opened) => ex.closed

\* C21 for the zarr-v3 handler and destinations that are no archive
C21_DestinationClosedV3NoArchive ==
    (ex.phase = "exported" /\ ex.opened /\ ex.zarr = "v3" /\ ~ex.dest.zip)
        => ex.closed

\* the zarr-v3 handler has closed a directory destination after a copy
\* that failed
C21_WitnessV3 ==
    /\ ex.phase = "exported" /\ ex.zarr = "v3"
    /\ ex.opened /\ ex.closed
    /\ ex.res = "RuntimeError_NoNode"

\* the normalized zone of st is structurally complete
ZoneComplete(st) ==
    /\ RknsPath \in DOMAIN st
    /\ {"patient_info", "admin_info", "channel_info"}
          \subseteq DOMAIN st[RknsPath].attrs
    /\ \A p \in FgPaths(st) :
          /\ Append(p, rkns_signal) \in DOMAIN st
          /\ Append(p, rkns_signal_minmaxs) \in DOMAIN st
          /\ {"channels", "sfreq_Hz"} \subseteq DOMAIN st[p].attrs

\* the same without the name of the rate attribute
ZoneCompleteButRate(st) ==
    /\ RknsPath \in DOMAIN st
    /\ {"patient_info", "admin_info", "channel_info"}
          \subseteq DOMAIN st[RknsPath].attrs
    /\ \A p \in FgPaths(st) :
          /\ Append(p, rkns_signal) \in DOMAIN st
          /\ Append(p, rkns_signal_minmaxs) \in DOMAIN st
          /\ "channels" \in DOMAIN st[p].attrs

\* the outcomes of a population that failed on decoding or validation
PopulateFailures == {"ParseError", "ValueError_duration"}

\* C22: a populate_rkns_from_raw that returns leaves a complete normalized
\* zone (patient_info, admin_info, channel_info on /rkns; signal,
\* signal_minmaxs, channels and sfreq_Hz in every frequency group); one that
\* fails on decoding or validation leaves no frequency group it wrote.
C22_PopulateAllOrNothing ==
    [][(last'.op = "populate_rkns_from_raw" /\ last'.ran)
        => /\ last'.res = "ok" => ZoneComplete(stores'[rkns.adapter])
           /\ last'.res \in PopulateFailures =>
                 FgPaths(stores'[rkns.adapter])
                    \subseteq FgPaths(stores[rkns.adapter])]_vars

\* C22 with the rate attribute under whatever name
C22_PopulateAllOrNothingButRate ==
    [][(last'.op = "populate_rkns_from_raw" /\ last'.ran)
        => /\ last'.res = "ok" => ZoneCompleteButRate(stores'[rkns.adapter])
           /\ last'.res \in PopulateFailures =>
                 FgPaths(stores'[rkns.adapter])
                    \subseteq FgPaths(stores[rkns.adapter])]_vars

\* n_samples / sample_rate of channel i of the extracted input, in seconds
ChannelDuration(i) ==
    FDiv(FInt(100 * Len(ex.channel_data[i])),
         FInt(ex.signal_headers[i].sample_frequency))

\* some channel's duration is not that of the first channel (np.isclose)
DurationsDiffer ==
    \E i \in DOMAIN ex.signal_headers :
        ~IsClose(ChannelDuration(1), ChannelDuration(i))

\* the channels of every frequency group are equally long, so that
\* np.stack accepts them
GroupsStackable ==
    \A i, j \in DOMAIN ex.signal_headers :
        ex.signal_headers[i].frequency_group
            = ex.signal_headers[j].frequency_group
        => Len(ex.channel_data[i]) = Len(ex.channel_data[j])

\* the extraction returned nothing: no group, no attribute
NothingExtracted ==
    DOMAIN ex.x \cap {"fg_arrays", "fg_attributes", "rkns_attributes"} = {}

\* C23 as stated: with validate the extraction fails with the duration
\* error exactly when some channel's duration differs from the first's,
\* and nothing is written then; without validate the check is not made;
\* a returned recording_duration_in_s is the duration of the first channel.
C23_DurationCheck ==
    ex.phase = "extracted" =>
        /\ ex.validate => (ex.x.res = "ValueError_duration" <=> DurationsDiffer)
        /\ ~ex.validate => ex.x.res # "ValueError_duration"
        /\ ex.x.res = "ValueError_duration" => NothingExtracted
        /\ ex.x.res = "ok" =>
              ex.x.rkns_attributes.admin_info.recording_duration_in_s
                  = ChannelDuration(1)

\* C23 amended: the same for inputs whose groups np.stack accepts; on the
\* others the extraction fails with the error of np.stack, with or without
\* validate, and nothing is written either.
C23_DurationCheckStackable ==
    ex.phase = "extracted" =>
        /\ (ex.validate /\ GroupsStackable) =>
              (ex.x.res = "ValueError_duration" <=> DurationsDiffer)
        /\ ~ex.validate => ex.x.res # "ValueError_duration"
        /\ ~GroupsStackable =>
              (ex.x.res = "ValueError_stack" /\ NothingExtracted)
        /\ ex.x.res = "ValueError_duration" => NothingExtracted
        /\ ex.x.res = "ok" =>
              ex.x.rkns_attributes.admin_info.recording_duration_in_s
                  = ChannelDuration(1)

\* a validated extraction has failed on durations that differ in two
\* groups
C23_Witness ==
    /\ ex.phase = "extracted"
    /\ ex.validate
    /\ GroupsStackable
    /\ DurationsDiffer
    /\ ex.x.res = "ValueError_duration"
    /\ NothingExtracted

\* an extraction without validate has returned for durations that differ
C23_WitnessUnvalidated ==
    /\ ex.phase = "extracted"
    /\ ~ex.validate
    /\ DurationsDiffer
    /\ ex.x.res = "ok"

\* the stored number v is the header value a
StoredEquals(v, a) == a.k = "fin" /\ v * a.d = a.n

\* C24: the column of signal_minmaxs of every channel is the channel
\* header's (physical_min, physical_max, digital_min, digital_max), with
\* nothing truncated or wrapped.
C24_MinmaxExact ==
    (ex.phase = "extracted" /\ ex.x.res = "ok") =>
        \A fg \in DOMAIN ex.x.fg_arrays :
            LET mm == ex.x.fg_arrays[fg].signal_minmaxs.data
            IN \A c \in 1..Cardinality(GroupChannels(fg)) :
                  \E i \in GroupChannels(fg) :
                     /\ Cardinality({j \in GroupChannels(fg) : j < i}) = c - 1
                     /\ StoredEquals(mm[1][c], ex.signal_headers[i].physical_min)
                     /\ StoredEquals(mm[2][c], ex.signal_headers[i].physical_max)
                     /\ mm[3][c] = ex.signal_headers[i].digital_min
                     /\ mm[4][c] = ex.signal_headers[i].digital_max

\* C24 for the channels whose physical limits are whole numbers
C24_MinmaxExactWhole ==
    (ex.phase = "extracted" /\ ex.x.res = "ok") =>
        \A fg \in DOMAIN ex.x.fg_arrays :
            LET mm == ex.x.fg_arrays[fg].signal_minmaxs.data
            IN \A c \in 1..Cardinality(GroupChannels(fg)) :
                  \E i \in GroupChannels(fg) :
                     /\ Cardinality({j \in GroupChannels(fg) : j < i}) = c - 1
                     /\ ex.signal_headers[i].physical_max.d = 1 =>
                          /\ StoredEquals(mm[1][c], ex.signal_headers[i].physical_min)
                          /\ StoredEquals(mm[2][c], ex.signal_headers[i].physical_max)
                     /\ mm[3][c] = ex.signal_headers[i].digital_min
                     /\ mm[4][c] = ex.signal_headers[i].digital_max

\* a step of extract_data
ExtractStep == ex.phase = "tagged" /\ ex'.phase = "extracted"

\* C25: extract_data leaves the channel data, the channel headers and the
\* file header as they were, and its result is determined by its inputs.
C25_Pure ==
    [][ExtractStep =>
          /\ ex'.channel_data = ex.channel_data
          /\ ex'.signal_headers = ex.signal_headers
          /\ ex'.header = ex.header
          /\ ex'.x = extract_data(ex.channel_data, ex.signal_headers,
                                  ex.header, ex'.validate)]_vars

\* C25 with the file header allowed to gain recording_duration_in_s
C25_PureButDuration ==
    [][ExtractStep =>
          /\ ex'.channel_data = ex.channel_data
          /\ ex'.signal_headers = ex.signal_headers
          /\ \A k \in DOMAIN ex.header : ex'.header[k] = ex.header[k]
          /\ DOMAIN ex'.header \subseteq
                DOMAIN ex.header \cup {"recording_duration_in_s"}
          /\ ex'.x = extract_data(ex.channel_data, ex.signal_headers,
                                  ex.header, ex'.validate)]_vars

(***************************************************************************)
(* get_signal with a time range, on one frequency group.  Times are in     *)
(* quarters of a second, rates in hundredths of a hertz, so that           *)
(* time * rate is (q * h) / 400 and every product of the model is exact.   *)
(***************************************************************************)
MaxSamples == 4

GroupRates == {100, 200}

FirstChannelRates == {100, 200, 400}

GroupOrder == <<"A", "B", "D">>

\* time ranges: (t0, t1) and (t0, inf)
TimeRanges ==
    [t0 : {0, 2, 4, 6}, inf : {FALSE}, t1 : {0, 2, 4, 6, 8, 40}]
    \cup [t0 : {0, 2, 4, 6}, inf : {TRUE}, t1 : {0}]

\* the channels argument: None, or a list of channels of the group
ChannelSelections ==
    {[has |-> FALSE, channels |-> <<>>],
     [has |-> TRUE, channels |-> <<"A">>],
     [has |-> TRUE, channels |-> <<"D", "A">>],
     [has |-> TRUE, channels |-> <<"A", "B", "D">>]}

\* int(t * sfreq_Hz) for a time that is not negative
TimeToIdx(t, sfreq_Hz) == (t * sfreq_Hz) \div 400

\* RKNS.__build_row_idx_from_timerange, duration being
\* self.get_recording_duration()
build_row_idx_from_timerange(sfreq_Hz, time_range, duration) ==
    IF ~time_range.inf /\ time_range.t1 <= time_range.t0
    THEN [res |-> "ValueError", idx |-> FullSlice]
    ELSE LET start_idx == TimeToIdx(time_range.t0, sfreq_Hz)
             end_time == IF time_range.inf
                            \/ time_range.t0 + duration < time_range.t1
                         THEN time_range.t0 + duration
                         ELSE time_range.t1
             end_idx == TimeToIdx(end_time, sfreq_Hz)
         IN [res |-> "ok", idx |-> SliceIx(TRUE, start_idx, TRUE, end_idx)]

\* RKNS.get_channel_order: channel name to column index
get_channel_order(channel_names_ordered) ==
    [c \in {channel_names_ordered[i] : i \in DOMAIN channel_names_ordered} |->
        (CHOOSE i \in DOMAIN channel_names_ordered :
            channel_names_ordered[i] = c) - 1]

\* RKNS.__build_col_idx_from_channels: the columns (0-based) in the order
\* asked for, every column for channels=None
build_col_idx_from_channels(selection, channel_names_ordered) ==
    IF ~selection.has
    THEN [c \in DOMAIN channel_names_ordered |-> c - 1]
    ELSE [i \in DOMAIN selection.channels |->
            get_channel_order(channel_names_ordered)[selection.channels[i]]]

\* self._get_signal_by_fg(fg)[row_idx, col_idx] on a group of n rows: the
\* element of the full signal (row, column, 0-based) at each place of the
\* result
get_signal_time(sfreq_Hz, n, duration, order, time_range, selection) ==
    LET row_idx == build_row_idx_from_timerange(sfreq_Hz, time_range, duration)
        col_idx == build_col_idx_from_channels(selection, order)
        rows == AxisSelect(row_idx.idx, n).sel
    IN IF row_idx.res # "ok" THEN [res |-> row_idx.res, out |-> <<>>]
       ELSE [res |-> "ok",
             out |-> [r \in DOMAIN rows |->
                        [c \in DOMAIN col_idx |-> <<rows[r] - 1, col_idx[c]>>]]]

\* a group of n rows at rate f in a container whose first channel has n1
\* samples at rate f1
InitTime ==
    /\ stores = NoStores
    /\ rkns = NoObj
    /\ last = [op |-> "init", arg |-> <<>>, res |-> "ok", ran |-> FALSE,
               closed |-> FALSE, out |-> <<>>]
    /\ ex = NoExtract
    /\ \E f \in GroupRates, n \in 1..MaxSamples,
          f1 \in FirstChannelRates, n1 \in 1..MaxSamples :
          /\ f1 # f
          /\ lz = [phase |-> "group", f |-> f, n |-> n,
                   duration |-> (n1 * 400) \div f1]

\* rkns.get_signal(channels, time_range=time_range)
GetSignalTime(time_range, selection) ==
    /\ lz.phase = "group"
    /\ lz' = [phase |-> "read", f |-> lz.f, n |-> lz.n,
              duration |-> lz.duration, time_range |-> time_range,
              selection |-> selection,
              x |-> get_signal_time(lz.f, lz.n, lz.duration, GroupOrder,
                                    time_range, selection)]
    /\ UNCHANGED <<stores, rkns, last, ex>>

NextTime ==
    \E time_range \in TimeRanges, selection \in ChannelSelections :
        GetSignalTime(time_range, selection)

SpecTime == InitTime /\ [][NextTime]_vars

\* the rows (0-based) floor(t0 * f) up to but excluding
\* floor(min(t1, D) * f) that the group has
RowsOfRange(f, n, duration, time_range) ==
    LET lo == TimeToIdx(time_range.t0, f)
        t_end == IF time_range.inf \/ duration < time_range.t1
                 THEN duration ELSE time_range.t1
        hi == IF TimeToIdx(t_end, f) < n THEN TimeToIdx(t_end, f) ELSE n
    IN [r \in 1..(IF hi > lo THEN hi - lo ELSE 0) |-> lo + r - 1]

\* the columns (0-based) asked for, in the order asked for
ColumnsOfSelection(selection) ==
    IF ~selection.has THEN <<0, 1, 2>>
    ELSE [i \in DOMAIN selection.channels |->
            CASE selection.channels[i] = "A" -> 0
              [] selection.channels[i] = "B" -> 1
              [] selection.channels[i] = "D" -> 2]

TimeRangeEmpty(time_range) ==
    ~time_range.inf /\ time_range.t1 <= time_range.t0

\* what the read is to return for its time range and channels
ReadAsSpecified ==
    IF TimeRangeEmpty(lz.time_range) THEN lz.x.res = "ValueError"
    ELSE /\ lz.x.res = "ok"
         /\ LET rows == RowsOfRange(lz.f, lz.n, lz.duration, lz.time_range)
                cols == ColumnsOfSelection(lz.selection)
            IN lz.x.out = [r \in DOMAIN rows |->
                              [c \in DOMAIN cols |-> <<rows[r], cols[c]>>]]

\* C26: get_signal with time range (t0, t1) returns rows floor(t0 * f) up
\* to but excluding floor(min(t1, D) * f) of the group, never a row outside
\* the recording, in the column order asked for, and raises ValueError
\* when t1 <= t0.
C26_TimeRange == lz.phase = "read" => ReadAsSpecified

\* C26 for a group that spans the recording duration (n = D * f)
C26_TimeRangeConsistent ==
    (lz.phase = "read" /\ lz.n * 400 = lz.duration * lz.f) => ReadAsSpecified

\* a read of the middle of a group that spans the recording
C26_WitnessConsistent ==
    /\ lz.phase = "read"
    /\ lz.n * 400 = lz.duration * lz.f
    /\ lz.x.res = "ok"
    /\ lz.time_range.t0 > 0
    /\ Len(lz.x.out) > 0
    /\ Len(lz.x.out) < lz.n

(***************************************************************************)
(* The record-oriented container (RKNS.py): from_edf lays the samples out  *)
(* record by record in one array, get_edf_data_record reads one record     *)
(* back.  Record durations are in half seconds, rates in hertz.  A sample  *)
(* of the source file is named <<channel, position>>.                      *)
(***************************************************************************)
NumberOfRecords == 1300

RecordDurations == {1, 2, 16}

ChannelRateSets == {<<2>>, <<100>>, <<100, 2>>, <<2, 100>>}

\* f[1] + ... + f[n]
RECURSIVE SumTo(_, _)
SumTo(f, n) == IF n = 0 THEN 0 ELSE SumTo(f, n - 1) + f[n]

\* from_edf: (sample_frequency * record_duration).astype(np.int16)
samples_per_record(sample_frequency, record_duration) ==
    [c \in DOMAIN sample_frequency |->
        Int16((sample_frequency[c] * record_duration) \div 2)]

\* from_edf: int(ceil(1000000 / chunk_size_per_30) * chunk_size_per_30)
\* with chunk_size_per_30 = 2 * 30 * (1.0 / record_duration) * record_size
chunk_size_of(record_duration, record_size) ==
    LET num == 120 * record_size
        chunk_size_multiplier ==
            (1000000 * record_duration + num - 1) \div num
    IN (chunk_size_multiplier * num) \div record_duration

\* from_edf: the sample of the source file at place p (0-based) of
\* tmp_data_array
tmp_data_array(sample_frequency, record_duration, p) ==
    LET n == samples_per_record(sample_frequency, record_duration)
        record_size == SumTo(n, Len(n))
        record_idx == p \div record_size
        off == p % record_size
        c == CHOOSE c \in DOMAIN n :
                SumTo(n, c - 1) <= off /\ off < SumTo(n, c)
    IN <<c, record_idx * n[c] + (off - SumTo(n, c - 1))>>

\* __get_edf_samples_per_record:
\* (sample_frequency * int(record_duration)).astype(np.int16)
get_edf_samples_per_record(sample_frequency, record_duration) ==
    [c \in DOMAIN sample_frequency |->
        Int16(sample_frequency[c] * (record_duration \div 2))]

\* a[lo : hi] on an axis of length n: the bounds, clamped
Clamp(x, n) == IF x < 0 THEN 0 ELSE IF x > n THEN n ELSE x

\* RKNS.get_edf_data_record(index): for every channel the places of the
\* stored array its samples are read from, first place and count
get_edf_data_record(h, index) ==
    LET n == get_edf_samples_per_record(h.sample_frequency, h.record_duration)
        record_size == SumTo(n, Len(n))
        chunk_size == h.chunk_size
        chunk_idx == (index * record_size) \div chunk_size
        record_start_idx == (record_size * index) % chunk_size
        chunk_start_idx == chunk_idx * chunk_size
        chunk_len == Clamp(chunk_start_idx + chunk_size, h.length)
                     - Clamp(chunk_start_idx, h.length)
        record_len == Clamp(record_start_idx + record_size, chunk_len)
                      - Clamp(record_start_idx, chunk_len)
    IN [c \in DOMAIN n |->
          LET lo == Clamp(SumTo(n, c - 1), record_len)
              hi == Clamp(SumTo(n, c), record_len)
          IN [first |-> chunk_start_idx + record_start_idx + lo,
              count |-> IF hi > lo THEN hi - lo ELSE 0]]

\* RKNS.from_edf on a file of NumberOfRecords records: the rkns_header and
\* the length of the array stored
from_edf(sample_frequency, record_duration) ==
    LET n == samples_per_record(sample_frequency, record_duration)
        record_size == SumTo(n, Len(n))
    IN [sample_frequency |-> sample_frequency,
        record_duration |-> record_duration,
        number_of_records |-> NumberOfRecords,
        chunk_size |-> chunk_size_of(record_duration, record_size),
        length |-> NumberOfRecords * record_size]

InitRecord ==
    /\ stores = NoStores
    /\ rkns = NoObj
    /\ last = [op |-> "init", arg |-> <<>>, res |-> "ok", ran |-> FALSE,
               closed |-> FALSE, out |-> <<>>]
    /\ ex = NoExtract
    /\ \E sample_frequency \in ChannelRateSets,
          record_duration \in RecordDurations :
          lz = [phase |-> "stored",
                h |-> from_edf(sample_frequency, record_duration)]

\* rkns.get_edf_data_record(index)
GetEdfDataRecord(index) ==
    /\ lz.phase = "stored"
    /\ lz' = [phase |-> "record", h |-> lz.h, index |-> index,
              record |-> get_edf_data_record(lz.h, index)]
    /\ UNCHANGED <<stores, rkns, last, ex>>

NextRecord ==
    \E index \in 0..(NumberOfRecords - 1) : GetEdfDataRecord(index)

SpecRecord == InitRecord /\ [][NextRecord]_vars

\* channel c of the record read holds samples index * n_c up to
\* (index + 1) * n_c - 1 of channel c of the source file
RecordExact ==
    LET n == samples_per_record(lz.h.sample_frequency, lz.h.record_duration)
    IN \A c \in DOMAIN n :
          /\ lz.record[c].count = n[c]
          /\ \A j \in 0..(n[c] - 1) :
                tmp_data_array(lz.h.sample_frequency, lz.h.record_duration,
                               lz.record[c].first + j)
                   = <<c, lz.index * n[c] + j>>

\* C27: every record read back has, for every channel, exactly
\* samples_per_record samples, and they are the samples of that record in
\* the source file; no record is cut short at a chunk boundary.
C27_RecordExact == lz.phase = "record" => RecordExact

\* C27 for records of one second
C27_RecordExactOneSecond ==
    (lz.phase = "record" /\ lz.h.record_duration = 2) => RecordExact

\* C27 for records of a whole number of seconds
C27_RecordExactWholeSeconds ==
    (lz.phase = "record" /\ lz.h.record_duration % 2 = 0) => RecordExact

\* C28: the adapter and the store handler of every RKNS object refer to
\* the same store, so populate_rkns_from_raw and reset_rkns work on the
\* container that get_signal and export read.
C28_SameStore == rkns # NoObj => rkns.adapter = rkns.handler

\* C28 for the objects built from an external file
C28_SameStoreExternal ==
    [][(last'.op = "from_file" /\ last'.arg.file_path \in SourceFiles
        /\ rkns' # NoObj)
          => rkns'.adapter = rkns'.handler]_vars

\* on a re-opened container whose adapter is bound to another store,
\* populate_rkns_from_raw leaves the container that was opened as it is
C28_PopulateElsewhere ==
    [][(last'.op \in {"populate_rkns_from_raw", "reset_rkns"} /\ last'.ran
        /\ rkns.adapter # rkns.handler)
          => stores'[rkns.handler] = stores[rkns.handler]]_vars

(***************************************************************************)
(* Opening an existing container that is given as a Store object or as a   *)
(* path ending in .zip.  For such a path the constructor of the handler    *)
(* makes ZipStore(path, mode="w"); a zip archive opened with mode "w" is   *)
(* truncated.  The ZipStore of zarr 2 opens the archive when it is made,   *)
(* the ZipStore of zarr 3 when it is first used.                           *)
(***************************************************************************)
GivenAs == {"store", "zip_path"}

\* the containers a handler is opened on
ExistingContainers == OpenStores \ {EmptyStore}

\* zarr.storage.ZipStore(store, mode="w"), once the archive is opened
ZipStore_w(st) == EmptyStore

\* StoreHandler.__init__(store): what the store holds afterwards
StoreHandler_init(zarr, st, given) ==
    IF given = "zip_path" /\ zarr = "v2" THEN ZipStore_w(st) ELSE st

\* what the store holds when the handler first reaches into it
first_use(zarr, st, given) ==
    IF given = "zip_path" THEN ZipStore_w(st) ELSE st

InitHandler ==
    /\ \E st \in ExistingContainers : stores = [NoStores EXCEPT !["s1"] = st]
    /\ rkns = NoObj
    /\ last = [op |-> "init", arg |-> <<>>, res |-> "ok", ran |-> FALSE,
               closed |-> FALSE, out |-> <<>>]
    /\ lz = NoLazy
    /\ \E zarr \in ZarrVersions, given \in GivenAs :
          ex = [phase |-> "none", zarr |-> zarr, given |-> given,
                op |-> "init", res |-> "ok"]

\* StoreHandler(store)
NewStoreHandler ==
    /\ ex.phase = "none"
    /\ stores' = [stores EXCEPT
                    !["s1"] = StoreHandler_init(ex.zarr, stores["s1"], ex.given)]
    /\ ex' = [ex EXCEPT !.phase = "handler", !.op = "StoreHandler"]
    /\ UNCHANGED <<rkns, last, lz>>

\* handler.root on the handler just made
FirstRoot ==
    /\ ex.phase = "handler"
    /\ LET r == accessor(first_use(ex.zarr, stores["s1"], ex.given), FALSE,
                         RootPath, root_mode(ex.zarr))
       IN /\ stores' = [stores EXCEPT !["s1"] = r.store]
          /\ ex' = [ex EXCEPT !.phase = "used", !.op = "root", !.res = r.res]
    /\ UNCHANGED <<rkns, last, lz>>

\* RKNSBuilder().from_existing_rkns_store(store, validate)
OpenContainer(validate) ==
    /\ ex.phase = "none"
    /\ LET r == open_existing(ex.zarr,
                              first_use(ex.zarr, stores["s1"], ex.given),
                              validate)
       IN /\ stores' = [stores EXCEPT !["s1"] = r.store]
          /\ ex' = [ex EXCEPT !.phase = "used",
                              !.op = "from_existing_rkns_store",
                              !.res = r.res]
    /\ UNCHANGED <<rkns, last, lz>>

NextHandler ==
    \/ NewStoreHandler
    \/ FirstRoot
    \/ \E validate \in BOOLEAN : OpenContainer(validate)

SpecHandler == InitHandler /\ [][NextHandler]_vars

\* C29: making a store handler for an existing container, or opening it
\* with from_existing_rkns_store, leaves every node, array byte and
\* attribute of the container as it was, a path ending in .zip included.
C29_OpenLeavesContainer == [][stores' = stores]_vars

\* C29 for a container given as a Store object
C29_OpenLeavesStoreObject ==
    [][ex.given = "store" => stores' = stores]_vars

\* from_file has just failed for want of an adapter for the format found
NoAdapterFailure ==
    last'.op = "from_file" /\ last'.res = "ValueError_NoAdapter"

\* C30: when from_file fails because no adapter is registered for the
\* detected format, the target store is as it was before the call: no root
\* attributes, none of the base groups.
C30_NoAdapterLeavesTarget ==
    [][NoAdapterFailure =>
          stores'[last'.arg.target_store] = stores[last'.arg.target_store]]_vars

\* when from_file fails for want of an adapter no object is returned and
\* no raw blob has been written
C30_NoAdapterNoBlob ==
    [][NoAdapterFailure =>
          /\ rkns' = NoObj
          /\ RawSignalPath \notin DOMAIN stores'[last'.arg.target_store]]_vars

====
